---- MODULE Spec2Model ----
(***************************************************************************)
(* Degree-audit client of webreg_scraper: the TTL result cache, the        *)
(* circuit breaker, the per-session lock registry and the orchestration   *)
(* of get_or_create_audit (crates/webreg/src/degree_audit).                *)
(*                                                                         *)
(* Time is a discrete clock `now`; an Instant is the value of the clock    *)
(* when it was taken and Instant::elapsed() is now - instant.              *)
(* Every access to shared state (an atomic load/store, a DashMap call, a   *)
(* std Mutex critical section, a tokio Mutex acquisition) is one step.     *)
(***************************************************************************)
EXTENDS Integers, Sequences, FiniteSets, TLC

\* ------------------------------------------------------------- bounds
NumReqs == 3          \* tasks (requests / calling threads)
MaxTime == 2          \* the clock runs 0..MaxTime
MaxFailures == 3      \* direct record_failure calls stop once the count is here

\* ------------------------------------------------ configuration values
threshold == 2        \* CircuitBreaker::new(threshold, _)
recovery_time == 1    \* CircuitBreaker::new(_, recovery_time)
default_ttl == 1      \* AuditCache::new(default_ttl)
max_poll_attempts == 2   \* DegreeAuditConfig.max_poll_attempts
max_poll_timeout == 1    \* DegreeAuditConfig.max_poll_timeout
\* calculate_poll_delay is called for the attempts 0..MaxAttempt
MaxAttempt == 7

Reqs == 1..NumReqs
Cookies == {"c1", "c2"}
Audits == {"a1", "a2"}
None == -1            \* Option<Instant>::None

\* SessionKey::from_cookie: a fixed digest of the cookie string (the first
\* 16 bytes of its SHA-256, in hex); equal cookies give equal keys.
from_cookie(c) ==
    CASE c = "c1" -> "3f1a"
      [] c = "c2" -> "9be4"

Keys == {from_cookie(c) : c \in Cookies}
LockIds == 1..Cardinality(Keys)

\* ------------------------------------------------------------- errors
RetryableErrors == {"Network", "PollTimeout", "UnexpectedResponse"}
\* every error execute_audit_flow can return
FlowErrors == {"Network", "SessionExpired", "UnexpectedResponse", "NoJobFound",
               "JobFailed", "PollTimeout", "ParseError", "UrlError"}

\* DegreeAuditError: the variants of the enum
ErrorVariants ==
    {"Network", "SessionExpired", "NoSession", "UnexpectedResponse", "NoJobFound",
     "JobFailed", "PollTimeout", "ParseError", "UrlError", "CircuitBreakerOpen",
     "OperationInProgress", "CookieFetchError"}

\* DegreeAuditError::needs_reauth
needs_reauth(e) == e \in {"SessionExpired", "NoSession"}

is_retryable_mutant(e) == e \in RetryableErrors \cup {"ParseError"}
\* DegreeAuditError::is_retryable
is_retryable(e) == e \in RetryableErrors

Ok(a) == [tag |-> "Ok", val |-> a]
Err(e) == [tag |-> "Err", val |-> e]
Some(a) == [tag |-> "Some", val |-> a]
NoneVal == [tag |-> "None", val |-> "none"]
Bool(b) == [tag |-> "Bool", val |-> IF b THEN "true" ELSE "false"]
Unit == [tag |-> "Unit", val |-> "unit"]
Pending == [tag |-> "Pending", val |-> "pending"]

NoArgs == [cookies |-> "none", force_refresh |-> FALSE]

VARIABLES
    now,            \* the clock
    entries,        \* AuditCache.entries: SessionKey -> CachedAudit
    failure_count,  \* CircuitBreaker.failure_count
    last_failure,   \* CircuitBreaker.last_failure
    session_locks,  \* AuditCacheState.session_locks: SessionKey -> lock
    lock_queue,     \* per lock: the holder (head) and the waiters, in order
    pc,             \* per task: where it is in the call it is executing
    call,           \* per task: the API call it is executing (or executed last)
    args,           \* per task: the arguments of that call
    ret,            \* per task: the value the call returned
    executed,       \* per task: the call entered execute_audit_flow
    seen,           \* per task: the breaker and cache as they were when the call was made
    offered,        \* per task: the entry inserted while it was queued for the lock
    healed,         \* per task: is_open called on an open breaker past its window,
                    \*           and no failure recorded since
    streak,         \* record_failure calls since the last record_success call
                    \* (-1 once a call was made outside the recovery window)
    streak_at,      \* the time of the last record_failure call
    flow            \* the execute_audit_flow call in progress, where it is followed
                    \* step by step

vars == <<now, entries, failure_count, last_failure, session_locks, lock_queue,
          pc, call, args, ret, executed, seen, offered, healed, streak, streak_at,
          flow>>
cacheVars == <<entries>>
breakerVars == <<failure_count, last_failure>>
lockVars == <<session_locks, lock_queue>>
taskVars == <<pc, call, args, ret, executed>>
ghostVars == <<seen, offered, healed, streak, streak_at>>

NoEntry == [result |-> "none", cached_at |-> None, ttl |-> 0]
\* JobStatus: the variant, and the string that Error and Unknown carry
Processing == [kind |-> "Processing", detail |-> <<>>]
Complete == [kind |-> "Complete", detail |-> <<>>]
Error(detail) == [kind |-> "Error", detail |-> detail]
Unknown(detail) == [kind |-> "Unknown", detail |-> detail]

\* AuditJob: a snapshot of the newest job of the list page
AuditJob(job_id, status, raw_href) ==
    [job_id |-> job_id, status |-> status, raw_href |-> raw_href]
\* no job id yet, and the job before the first discovery
NoJobId == <<>>
NoJob == AuditJob(NoJobId, [kind |-> "none", detail |-> <<>>], NoneVal)

\* execute_audit_flow as it is entered: nothing requested yet
NewFlow ==
    [pc |-> "create",          \* the step the flow is at
     job |-> NoJob,            \* the job of the most recent discovery
     start |-> None,           \* poll_until_ready: start
     attempts |-> 0,           \* poll_until_ready: attempts
     discoveries |-> 0,        \* calls of fetch_list_and_discover so far
     sleeps |-> 0,             \* backoff sleeps so far
     ready_job_id |-> NoJobId, \* execute_audit_flow: ready_job_id
     requested |-> NoJobId,    \* the id the request for read.html carried
     log |-> <<>>,             \* the requests made so far, in their order
     result |-> [tag |-> "Pending", val |-> "pending"]]

NoSeen == [count |-> 0, last |-> None, len |-> 0, entry |-> NoEntry, at |-> 0]

Init ==
    /\ now = 0
    /\ entries = <<>>
    /\ failure_count = 0
    /\ last_failure = None
    /\ session_locks = <<>>
    /\ lock_queue = [l \in LockIds |-> <<>>]
    /\ pc = [r \in Reqs |-> "idle"]
    /\ call = [r \in Reqs |-> "none"]
    /\ args = [r \in Reqs |-> NoArgs]
    /\ ret = [r \in Reqs |-> Pending]
    /\ executed = [r \in Reqs |-> FALSE]
    /\ seen = [r \in Reqs |-> NoSeen]
    /\ offered = [r \in Reqs |-> NoEntry]
    /\ healed = [r \in Reqs |-> FALSE]
    /\ streak = 0
    /\ streak_at = None
    /\ flow = NewFlow

\* ---------------------------------------------------------------- time
Tick ==
    /\ now < MaxTime
    /\ now' = now + 1
    /\ UNCHANGED <<cacheVars, breakerVars, lockVars, taskVars, ghostVars, flow>>

\* Instant::elapsed()
elapsed(instant) == now - instant

\* --------------------------------------------------- control of a task
Goto(r, label) == pc' = [pc EXCEPT ![r] = label]

\* The call returns v and the task is free to make another call.
Finish(r, v) ==
    /\ pc' = [pc EXCEPT ![r] = "idle"]
    /\ ret' = [ret EXCEPT ![r] = v]

Invoke(r, name, a, label) ==
    /\ pc[r] = "idle"
    /\ pc' = [pc EXCEPT ![r] = label]
    /\ call' = [call EXCEPT ![r] = name]
    /\ args' = [args EXCEPT ![r] = a]
    /\ ret' = [ret EXCEPT ![r] = Pending]

Key(r) == from_cookie(args[r].cookies)

\* ------------------------------------------------------ CircuitBreaker
BelowThreshold_mutant(count) == count <= threshold
\* is_open: count < self.threshold
BelowThreshold(count) == count < threshold

RecoveryPassed_mutant(last) == last # None /\ elapsed(last) >= recovery_time
\* is_open: if let Some(last) = *guard { if last.elapsed() > self.recovery_time
RecoveryPassed(last) == last # None /\ elapsed(last) > recovery_time

fetch_add_mutant(count) == count
\* AtomicU32::fetch_add(1); the count stays far below 2^32, where it would
\* wrap: every increment is one finished call
fetch_add(count) == count + 1

IsOpenReturn_mutant(r, b) ==
    IF call[r] = "fetch"
      THEN Goto(r, "cache_check") /\ UNCHANGED ret
      ELSE Finish(r, Bool(b))

\* is_open() returns b to its caller: get_or_create_audit goes on to the
\* cache or returns CircuitBreakerOpen, a direct caller gets the boolean.
IsOpenReturn(r, b) ==
    IF call[r] = "fetch"
      THEN IF b THEN Finish(r, Err("CircuitBreakerOpen"))
                ELSE Goto(r, "cache_check") /\ UNCHANGED ret
      ELSE Finish(r, Bool(b))

\* is_open: load the count; below the threshold the breaker is closed
IsOpenLoad(r) ==
    /\ pc[r] = "is_open"
    /\ IF BelowThreshold(failure_count)
         THEN IsOpenReturn(r, FALSE)
         ELSE Goto(r, "is_open_lock") /\ UNCHANGED ret
    /\ UNCHANGED <<now, flow, cacheVars, breakerVars, lockVars, call, args, executed, ghostVars>>

\* is_open: lock last_failure and compare its age with the recovery time
IsOpenLock(r) ==
    /\ pc[r] = "is_open_lock"
    /\ IF RecoveryPassed(last_failure)
         THEN Goto(r, "reset_store") /\ UNCHANGED ret
         ELSE IsOpenReturn(r, TRUE)
    /\ UNCHANGED <<now, flow, cacheVars, breakerVars, lockVars, call, args, executed, ghostVars>>

\* reset: failure_count.store(0)
ResetStore(r) ==
    /\ pc[r] = "reset_store"
    /\ failure_count' = 0
    /\ Goto(r, "reset_stamp")
    /\ UNCHANGED <<now, flow, cacheVars, last_failure, lockVars, call, args, ret, executed, ghostVars>>

\* reset: *guard = None; is_open then returns false
ResetStamp(r) ==
    /\ pc[r] = "reset_stamp"
    /\ last_failure' = None
    /\ IsOpenReturn(r, FALSE)
    /\ UNCHANGED <<now, flow, cacheVars, failure_count, lockVars, call, args, executed, ghostVars>>

\* record_success: failure_count.store(0)
RecordSuccess(r) ==
    /\ pc[r] = "record_success"
    /\ failure_count' = 0
    /\ IF call[r] = "fetch" THEN Goto(r, "insert") /\ UNCHANGED ret
                            ELSE Finish(r, Unit)
    /\ UNCHANGED <<now, flow, cacheVars, last_failure, lockVars, call, args, executed, ghostVars>>

\* record_failure: failure_count.fetch_add(1)
RecordFailureAdd(r) ==
    /\ pc[r] = "record_failure"
    /\ failure_count' = fetch_add(failure_count)
    /\ Goto(r, "record_failure_stamp")
    /\ healed' = [t \in Reqs |-> FALSE]
    /\ UNCHANGED <<now, flow, cacheVars, last_failure, lockVars, call, args, ret, executed,
                   seen, offered, streak, streak_at>>

\* record_failure: *guard = Some(Instant::now())
RecordFailureStamp(r) ==
    /\ pc[r] = "record_failure_stamp"
    /\ last_failure' = now
    /\ IF call[r] = "fetch" THEN Goto(r, "return") /\ UNCHANGED ret
                            ELSE Finish(r, Unit)
    /\ healed' = [t \in Reqs |-> FALSE]
    /\ UNCHANGED <<now, flow, cacheVars, failure_count, lockVars, call, args, executed,
                   seen, offered, streak, streak_at>>

BreakerStep(r) ==
    \/ IsOpenLoad(r) \/ IsOpenLock(r) \/ ResetStore(r) \/ ResetStamp(r)
    \/ RecordSuccess(r) \/ RecordFailureAdd(r) \/ RecordFailureStamp(r)

\* ---------------------------------------------------------- AuditCache
CachedAudit(result, ttl) == [result |-> result, cached_at |-> now, ttl |-> ttl]

Fresh_mutant(entry) == elapsed(entry.cached_at) <= entry.ttl
\* get: entry.cached_at.elapsed() < entry.ttl
Fresh(entry) == elapsed(entry.cached_at) < entry.ttl

Removed_mutant(map, key) == [k \in DOMAIN map \cap {key} |-> map[k]]
\* DashMap::remove
Removed(map, key) == [k \in DOMAIN map \ {key} |-> map[k]]

Inserted_mutant(map, key, entry) == map
\* DashMap::insert: overwrites
Inserted(map, key, entry) ==
    [k \in DOMAIN map \cup {key} |-> IF k = key THEN entry ELSE map[k]]

\* AuditCache::len
len == Cardinality(DOMAIN entries)

\* AuditCache::stats
stats ==
    LET total == Cardinality(DOMAIN entries)
        expired == Cardinality({k \in DOMAIN entries : ~Fresh(entries[k])})
    IN  [total_entries |-> total, expired_entries |-> expired,
         active_entries |-> total - expired]

\* get, up to the point where the entry's guard is dropped: what the lookup
\* finds for the key
Lookup(key) ==
    IF key \notin DOMAIN entries THEN "absent"
    ELSE IF Fresh(entries[key]) THEN "hit"
    ELSE "expired"

\* get called directly: look the key up
GetCheck(r) ==
    /\ pc[r] = "get"
    /\ CASE Lookup(Key(r)) = "absent" -> Finish(r, NoneVal)
         [] Lookup(Key(r)) = "hit" -> Finish(r, Some(entries[Key(r)].result))
         [] Lookup(Key(r)) = "expired" -> Goto(r, "get_remove") /\ UNCHANGED ret
    /\ UNCHANGED <<now, flow, cacheVars, breakerVars, lockVars, call, args, executed, ghostVars>>

\* get called directly: the entry had expired; self.entries.remove(key); None
GetRemove(r) ==
    /\ pc[r] = "get_remove"
    /\ entries' = Removed(entries, Key(r))
    /\ Finish(r, NoneVal)
    /\ UNCHANGED <<now, flow, breakerVars, lockVars, call, args, executed, ghostVars>>

CacheStep(r) == GetCheck(r) \/ GetRemove(r)

\* ------------------------------------------- AuditCacheState: the locks
get_session_lock_mutant(key) == 1
\* get_session_lock: session_locks.entry(key).or_insert_with(new lock).clone()
get_session_lock(key) ==
    IF key \in DOMAIN session_locks THEN session_locks[key]
    ELSE Cardinality(DOMAIN session_locks) + 1

Waiting(l) == {lock_queue[l][i] : i \in 1..Len(lock_queue[l])}

HasLock_mutant(r) == \E l \in LockIds : r \in Waiting(l)
\* lock.lock().await has returned: the task holds the tokio Mutex, which it
\* gets in the order of arrival
HasLock(r) == \E l \in LockIds : lock_queue[l] # <<>> /\ Head(lock_queue[l]) = r

\* drop(_guard)
Released(r) ==
    [l \in LockIds |-> IF lock_queue[l] # <<>> /\ Head(lock_queue[l]) = r
                         THEN Tail(lock_queue[l]) ELSE lock_queue[l]]

\* what the caller can see of the breaker and of the cache's entry for
\* `key` when it makes a call
Snapshot(r, key) ==
    seen' = [seen EXCEPT ![r] =
               [count |-> failure_count, last |-> last_failure, len |-> len,
                entry |-> IF key \in DOMAIN entries THEN entries[key] ELSE NoEntry,
                at |-> now]]

\* ------------------------------- DegreeAuditClient::get_or_create_audit
\* what execute_audit_flow can return
FlowOutcomes == {Ok(a) : a \in Audits} \cup {Err(e) : e \in FlowErrors}

\* get_or_create_audit(cookies, force_refresh) is called; `track` says
\* whether the caller notes what it can see
Start(r, c, f, track) ==
    /\ Invoke(r, "fetch", [cookies |-> c, force_refresh |-> f], "is_open")
    /\ executed' = [executed EXCEPT ![r] = FALSE]
    /\ IF track THEN Snapshot(r, from_cookie(c)) ELSE UNCHANGED seen
    /\ UNCHANGED <<now, flow, cacheVars, breakerVars, lockVars, offered, healed, streak, streak_at>>

\* the cache check before the lock: if !force_refresh { cache.get(..) }
CacheCheck(r) ==
    /\ pc[r] = "cache_check"
    /\ IF args[r].force_refresh
         THEN Goto(r, "get_lock") /\ UNCHANGED ret
         ELSE CASE Lookup(Key(r)) = "absent" -> Goto(r, "get_lock") /\ UNCHANGED ret
                [] Lookup(Key(r)) = "hit" -> Finish(r, Ok(entries[Key(r)].result))
                [] Lookup(Key(r)) = "expired" -> Goto(r, "cache_remove") /\ UNCHANGED ret
    /\ UNCHANGED <<now, flow, cacheVars, breakerVars, lockVars, call, args, executed, ghostVars>>

\* that get found the entry expired: self.entries.remove(key)
CacheRemove(r) ==
    /\ pc[r] = "cache_remove"
    /\ entries' = Removed(entries, Key(r))
    /\ Goto(r, "get_lock")
    /\ UNCHANGED <<now, flow, breakerVars, lockVars, call, args, ret, executed, ghostVars>>

\* get_session_lock(&session_key), then lock.lock() queues the task
GetLock(r) ==
    /\ pc[r] = "get_lock"
    /\ LET l == get_session_lock(Key(r)) IN
         /\ session_locks' = IF Key(r) \in DOMAIN session_locks THEN session_locks
                             ELSE (Key(r) :> l) @@ session_locks
         /\ lock_queue' = [lock_queue EXCEPT ![l] = Append(@, r)]
    /\ Goto(r, "lock_await")
    /\ UNCHANGED <<now, flow, cacheVars, breakerVars, call, args, ret, executed, ghostVars>>

\* the lock is held; the cache check after the lock; a hit returns, which
\* drops the guard
PostLockCheck(r) ==
    /\ pc[r] = "lock_await"
    /\ HasLock(r)
    /\ IF args[r].force_refresh
         THEN Goto(r, "flow") /\ UNCHANGED <<ret, lock_queue>>
         ELSE CASE Lookup(Key(r)) = "absent" -> Goto(r, "flow") /\ UNCHANGED <<ret, lock_queue>>
                [] Lookup(Key(r)) = "hit" ->
                     /\ Finish(r, Ok(entries[Key(r)].result))
                     /\ lock_queue' = Released(r)
                [] Lookup(Key(r)) = "expired" ->
                     Goto(r, "post_lock_remove") /\ UNCHANGED <<ret, lock_queue>>
    /\ offered' = [offered EXCEPT ![r] = NoEntry]
    /\ UNCHANGED <<now, flow, cacheVars, breakerVars, session_locks, call, args, executed,
                   seen, healed, streak, streak_at>>

\* that get found the entry expired: self.entries.remove(key)
PostLockRemove(r) ==
    /\ pc[r] = "post_lock_remove"
    /\ entries' = Removed(entries, Key(r))
    /\ Goto(r, "flow")
    /\ UNCHANGED <<now, flow, breakerVars, lockVars, call, args, ret, executed, ghostVars>>

\* execute_audit_flow begins: trigger_create sends the create request
FlowStart(r) ==
    /\ pc[r] = "flow"
    /\ executed' = [executed EXCEPT ![r] = TRUE]
    /\ Goto(r, "in_flow")
    /\ flow' = NewFlow
    /\ UNCHANGED <<now, cacheVars, breakerVars, lockVars, call, args, ret, ghostVars>>

\* execute_audit_flow returns `result`; match &result picks what follows
FlowFinish(r, o) ==
    /\ pc[r] = "in_flow"
    /\ ret' = [ret EXCEPT ![r] = o]
    /\ Goto(r, IF o.tag = "Ok" THEN "record_success"
               ELSE IF is_retryable(o.val) THEN "record_failure"
               ELSE "return")
    /\ UNCHANGED <<now, flow, cacheVars, breakerVars, lockVars, call, args, executed, ghostVars>>

\* Ok(audit): self.cache_state.cache.insert(session_key, audit.clone())
Insert(r) ==
    /\ pc[r] = "insert"
    /\ entries' = Inserted(entries, Key(r), CachedAudit(ret[r].val, default_ttl))
    /\ Goto(r, "return")
    /\ offered' = [q \in Reqs |->
                     IF q # r /\ pc[q] = "lock_await" /\ Key(q) = Key(r)
                       THEN CachedAudit(ret[r].val, default_ttl) ELSE offered[q]]
    /\ UNCHANGED <<now, flow, breakerVars, lockVars, call, args, ret, executed,
                   seen, healed, streak, streak_at>>

\* `result` is returned and the guard dropped
Return(r) ==
    /\ pc[r] = "return"
    /\ lock_queue' = Released(r)
    /\ Finish(r, ret[r])
    /\ UNCHANGED <<now, flow, cacheVars, breakerVars, session_locks, call, args, executed, ghostVars>>

\* the steps of a request between the breaker check and its return, but
\* for the end of execute_audit_flow
FetchStep(r) ==
    \/ CacheCheck(r) \/ CacheRemove(r) \/ GetLock(r) \/ PostLockCheck(r)
    \/ PostLockRemove(r) \/ FlowStart(r) \/ Insert(r) \/ Return(r)


\* ------------------------------------------------------------ strings
\* A string is the sequence of its characters.
Upper == <<"A", "B", "C", "D", "E", "F", "G", "H", "I", "J", "K", "L", "M", "N", "O", "P", "Q", "R", "S", "T", "U", "V", "W", "X", "Y", "Z">>
Lower == <<"a", "b", "c", "d", "e", "f", "g", "h", "i", "j", "k", "l", "m", "n", "o", "p", "q", "r", "s", "t", "u", "v", "w", "x", "y", "z">>

\* char::to_lowercase, on the ASCII letters
LowerChar(c) ==
    IF \E i \in 1..26 : Upper[i] = c
      THEN Lower[CHOOSE i \in 1..26 : Upper[i] = c]
      ELSE c

\* str::to_lowercase
to_lowercase(s) == [i \in 1..Len(s) |-> LowerChar(s[i])]

\* the pattern stands in s at position i
MatchesAt(s, pattern, i) ==
    /\ i + Len(pattern) - 1 <= Len(s)
    /\ \A j \in 1..Len(pattern) : s[i + j - 1] = pattern[j]

\* str::contains
contains(s, pattern) == \E i \in 1..(Len(s) + 1) : MatchesAt(s, pattern, i)

\* ------------------------------------------------- the upstream server
\* check_session_valid: sso_indicators
sso_indicators ==
    { <<"l", "o", "g", "i", "n", ".", "u", "c", "s", "d", ".", "e", "d", "u">>,
      <<"s", "s", "o", ".", "u", "c", "s", "d", ".", "e", "d", "u">>,
      <<"s", "h", "i", "b">>,
      <<"s", "h", "i", "b", "b", "o", "l", "e", "t", "h">>,
      <<"i", "d", "p">>,
      <<"s", "a", "m", "l">>,
      <<"l", "o", "g", "i", "n", "?">>,
      <<"/", "l", "o", "g", "i", "n">>,
      <<"a", "u", "t", "h", ".", "u", "c", "s", "d", ".", "e", "d", "u">> }

\* the URLs a response can have been resolved to
ListUrl == <<"a", "c", "t", ".", "u", "c", "s", "d", ".", "e", "d", "u", "/", "a", "u", "d", "i", "t", "/", "l", "i", "s", "t", ".", "h", "t", "m", "l">>
LoginUrl == <<"a", "5", ".", "u", "c", "s", "d", ".", "e", "d", "u", "/", "t", "r", "i", "t", "O", "N", "/", "L", "o", "g", "i", "n", "?", "x">>
ShibUrl == <<"A", "4", ".", "U", "C", "S", "D", ".", "E", "D", "U", "/", "S", "h", "i", "b", "b", "o", "l", "e", "t", "h", ".", "s", "s", "o">>
Urls == {ListUrl, LoginUrl, ShibUrl}

\* what comes back from a request: no response at all (send() fails), or a
\* response with the URL it was resolved to and a status code
NoResponse == [sent |-> FALSE, url |-> <<>>, status |-> 0]
Responses ==
    {NoResponse} \cup
    {[sent |-> TRUE, url |-> u, status |-> st] :
        u \in Urls, st \in {200, 301, 302, 303, 307, 500}}

\* the paths of the endpoints and the query of the list page
CREATE_PATH == <<"/", "a", "u", "d", "i", "t", "/", "c", "r", "e", "a", "t", "e", ".", "h", "t", "m", "l">>
LIST_PATH == <<"/", "a", "u", "d", "i", "t", "/", "l", "i", "s", "t", ".", "h", "t", "m", "l">>
AutoPoll == <<"?", "a", "u", "t", "o", "P", "o", "l", "l", "=", "t", "r", "u", "e">>

\* config.base_url: the default (DARS_BASE_URL), a server with a port, and
\* a string that Url::parse rejects though a path appended to it makes a URL
DARS_BASE_URL == <<"h", "t", "t", "p", "s", ":", "/", "/", "a", "c", "t", ".", "u", "c", "s", "d", ".", "e", "d", "u", "/", "s", "t", "u", "d", "e", "n", "t", "D", "a", "r", "s", "S", "e", "l", "f", "s", "e", "r", "v", "i", "c", "e">>
PortBaseUrl == <<"h", "t", "t", "p", ":", "/", "/", "l", "o", "c", "a", "l", "h", "o", "s", "t", ":", "8", "0", "8", "0">>
BadBaseUrl == <<"h", "t", "t", "p", ":">>
BaseUrls == {DARS_BASE_URL, PortBaseUrl, BadBaseUrl}

\* the Location header of the response to create: none, an absolute URL,
\* an absolute path (host-relative) or a path relative to the create page
AbsoluteLocation == <<"h", "t", "t", "p", "s", ":", "/", "/", "a", "c", "t", ".", "u", "c", "s", "d", ".", "e", "d", "u", "/", "s", "t", "u", "d", "e", "n", "t", "D", "a", "r", "s", "S", "e", "l", "f", "s", "e", "r", "v", "i", "c", "e", "/", "a", "u", "d", "i", "t", "/", "l", "i", "s", "t", ".", "h", "t", "m", "l">>
HostLocation == <<"/", "s", "t", "u", "d", "e", "n", "t", "D", "a", "r", "s", "S", "e", "l", "f", "s", "e", "r", "v", "i", "c", "e", "/", "a", "u", "d", "i", "t", "/", "l", "i", "s", "t", ".", "h", "t", "m", "l">>
PathLocation == <<"l", "i", "s", "t", ".", "h", "t", "m", "l", "?", "a", "u", "t", "o", "P", "o", "l", "l", "=", "t", "r", "u", "e">>
Locations == {NoneVal} \cup {Some(l) : l \in {AbsoluteLocation, HostLocation, PathLocation}}

\* ------------------------------------------------------------ job.rs
is_ready_mutant(status) == status.kind \in {"Complete", "Unknown"}
\* JobStatus::is_ready
is_ready(status) == status.kind = "Complete"

\* JobStatus::is_failed
is_failed(status) == status.kind = "Error"

\* the characters of [^&\s], of [!%21] and of [A-Za-z0-9_\-]
Digits == <<"0", "1", "2", "3", "4", "5", "6", "7", "8", "9">>
IdChar(c) == c \notin {"&", " "}
BangChar(c) == c \in {"!", "%", "2", "1"}
WordChar(c) ==
    \/ \E i \in 1..26 : Upper[i] = c \/ Lower[i] = c
    \/ \E i \in 1..10 : Digits[i] = c
    \/ c \in {"_", "-"}

\* where the longest run of characters of a class that begins at i ends
\* (i - 1 if there is none): what a greedy `+` takes; in_class[j] says
\* whether the j-th character is of the class
RunEnd(in_class, i) ==
    CHOOSE e \in (i - 1)..Len(in_class) :
        /\ \A j \in i..e : in_class[j]
        /\ e = Len(in_class) \/ ~in_class[e + 1]

IdChars(s) == [j \in 1..Len(s) |-> IdChar(s[j])]
BangChars(s) == [j \in 1..Len(s) |-> BangChar(s[j])]
WordChars(s) == [j \in 1..Len(s) |-> WordChar(s[j])]

Min(S) == CHOOSE i \in S : \A j \in S : i <= j
Max(S) == CHOOSE i \in S : \A j \in S : i >= j

JobIdStarts_mutant(href) ==
    {i + 3 : i \in {i \in 1..Len(href) :
        /\ MatchesAt(href, <<"i", "d", "=">>, i)
        /\ i + 3 <= Len(href) /\ IdChar(href[i + 3])}}
\* JOB_ID_REGEX [?&]id=([^&\s]+): where in href group 1 of a match can begin
JobIdStarts(href) ==
    {i + 4 : i \in {i \in 1..Len(href) :
        /\ href[i] \in {"?", "&"}
        /\ MatchesAt(href, <<"i", "d", "=">>, i + 1)
        /\ i + 4 <= Len(href) /\ IdChar(href[i + 4])}}

\* JOB_ID_REGEX.captures(href), caps.get(1): group 1 of the leftmost match
JobIdCapture(href) ==
    LET start == Min(JobIdStarts(href)) IN
      SubSeq(href, start, RunEnd(IdChars(href), start))

\* JOBQUEUE_REGEX JobQueueRun[!%21]+[A-Za-z0-9_\-]+: where a match can
\* begin, the first class taking at least one character and leaving at
\* least one to the second
JobQueueRun == <<"J", "o", "b", "Q", "u", "e", "u", "e", "R", "u", "n">>
JobQueueSplits(href, i) ==
    {k \in (i + Len(JobQueueRun))..RunEnd(BangChars(href), i + Len(JobQueueRun)) :
        k + 1 <= Len(href) /\ WordChar(href[k + 1])}
JobQueueStarts(href) ==
    {i \in 1..Len(href) :
        MatchesAt(href, JobQueueRun, i) /\ JobQueueSplits(href, i) # {}}

\* JOBQUEUE_REGEX.captures(href), caps.get(0): the leftmost match, each `+`
\* taking as much as it can
JobQueueMatch(href) ==
    LET start == Min(JobQueueStarts(href))
        split == Max(JobQueueSplits(href, start)) IN
      SubSeq(href, start, RunEnd(WordChars(href), split + 1))

\* str::replace: every match of `from`, left to right, none overlapping
RECURSIVE replace(_, _, _)
replace(s, from, to) ==
    IF Len(s) = 0 THEN <<>>
    ELSE IF MatchesAt(s, from, 1)
      THEN to \o replace(SubSeq(s, Len(from) + 1, Len(s)), from, to)
      ELSE <<s[1]>> \o replace(Tail(s), from, to)

\* urlencoding_decode: seven replacements, one after the other
urlencoding_decode(s) ==
    replace(replace(replace(replace(replace(replace(replace(s,
        <<"%", "2", "1">>, <<"!">>),
        <<"%", "2", "0">>, <<" ">>),
        <<"%", "2", "F">>, <<"/">>),
        <<"%", "3", "A">>, <<":">>),
        <<"%", "3", "D">>, <<"=">>),
        <<"%", "2", "6">>, <<"&">>),
        <<"%", "3", "F">>, <<"?">>)

\* extract_job_id_from_href: the id parameter, or else the JobQueueRun
\* pattern, decoded
extract_job_id_from_href(href) ==
    IF JobIdStarts(href) # {} THEN Some(urlencoding_decode(JobIdCapture(href)))
    ELSE IF JobQueueStarts(href) # {} THEN Some(urlencoding_decode(JobQueueMatch(href)))
    ELSE NoneVal

\* hrefs of list.html: a path, perhaps a ;jsessionid segment, the query
\* with the id parameter and perhaps another parameter after it
ReadPath == <<"r", "e", "a", "d", ".", "h", "t", "m", "l">>
SessionSegment == <<";", "j", "s", "e", "s", "s", "i", "o", "n", "i", "d", "=", "X", "Y", "Z", "1", "2", "3">>
IdQuery == <<"?", "i", "d", "=">>
PlainJobId == <<"J", "o", "b", "Q", "u", "e", "u", "e", "R", "u", "n", "!", "!", "!", "!", "A", "B", "C", "1", "2", "3">>
EncodedJobId == <<"J", "o", "b", "Q", "u", "e", "u", "e", "R", "u", "n", "%", "2", "1", "%", "2", "1", "%", "2", "1", "%", "2", "1", "A", "B", "C", "1", "2", "3">>
OtherParameter == <<"&", "x", "=", "1">>
IdHrefs ==
    {ReadPath \o segment \o IdQuery \o id \o rest :
        segment \in {<<>>, SessionSegment}, id \in {PlainJobId, EncodedJobId},
        rest \in {<<>>, OtherParameter}}
\* an href without an id parameter, and one without a job
PatternHref == <<"v", "i", "e", "w", "/", "J", "o", "b", "Q", "u", "e", "u", "e", "R", "u", "n", "%", "2", "1", "1", "2">>
NoJobHref == <<"l", "i", "s", "t", ".", "h", "t", "m", "l", "?", "p", "a", "g", "e", "=", "2">>
Hrefs == IdHrefs \cup {PatternHref, NoJobHref}

\* str::trim, of spaces
RECURSIVE trim(_)
trim(s) ==
    IF Len(s) = 0 THEN s
    ELSE IF Head(s) = " " THEN trim(Tail(s))
    ELSE IF s[Len(s)] = " " THEN trim(SubSeq(s, 1, Len(s) - 1))
    ELSE s

\* one of the words stands in s
contains_any(s, words) == \E word \in words : contains(s, word)

extract_status_from_row_mutant(row) ==
    LET text == to_lowercase(row.text)
        class_attr == to_lowercase(row.class)
    IN  IF contains_any(class_attr, {<<"c", "o", "m", "p", "l", "e", "t", "e">>, <<"s", "u", "c", "c", "e", "s", "s">>}) THEN Complete
        ELSE IF contains_any(class_attr, {<<"p", "e", "n", "d", "i", "n", "g">>, <<"p", "r", "o", "c", "e", "s", "s", "i", "n", "g">>}) THEN Processing
        ELSE IF contains_any(class_attr, {<<"e", "r", "r", "o", "r">>, <<"f", "a", "i", "l">>})
          THEN Error(<<"s", "t", "a", "t", "u", "s", " ", "c", "l", "a", "s", "s", " ", "i", "n", "d", "i", "c", "a", "t", "e", "s", " ", "f", "a", "i", "l", "u", "r", "e">>)
        ELSE IF contains_any(text, {<<"c", "o", "m", "p", "l", "e", "t", "e">>, <<"r", "e", "a", "d", "y">>, <<"f", "i", "n", "i", "s", "h", "e", "d">>}) THEN Complete
        ELSE IF contains_any(text, {<<"p", "r", "o", "c", "e", "s", "s", "i", "n", "g">>, <<"r", "u", "n", "n", "i", "n", "g">>, <<"p", "e", "n", "d", "i", "n", "g">>, <<"q", "u", "e", "u", "e", "d">>, <<"i", "n", " ", "p", "r", "o", "g", "r", "e", "s", "s">>})
          THEN Processing
        ELSE IF contains_any(text, {<<"e", "r", "r", "o", "r">>, <<"f", "a", "i", "l", "e", "d">>, <<"f", "a", "i", "l", "u", "r", "e">>}) THEN Error(trim(text))
        ELSE Complete
\* extract_status_from_row, of a row with its text and its class attribute
extract_status_from_row(row) ==
    LET text == to_lowercase(row.text)
        class_attr == to_lowercase(row.class)
    IN  IF contains_any(text, {<<"c", "o", "m", "p", "l", "e", "t", "e">>, <<"r", "e", "a", "d", "y">>, <<"f", "i", "n", "i", "s", "h", "e", "d">>}) THEN Complete
        ELSE IF contains_any(text, {<<"p", "r", "o", "c", "e", "s", "s", "i", "n", "g">>, <<"r", "u", "n", "n", "i", "n", "g">>, <<"p", "e", "n", "d", "i", "n", "g">>, <<"q", "u", "e", "u", "e", "d">>, <<"i", "n", " ", "p", "r", "o", "g", "r", "e", "s", "s">>})
          THEN Processing
        ELSE IF contains_any(text, {<<"e", "r", "r", "o", "r">>, <<"f", "a", "i", "l", "e", "d">>, <<"f", "a", "i", "l", "u", "r", "e">>}) THEN Error(trim(text))
        ELSE IF contains_any(class_attr, {<<"c", "o", "m", "p", "l", "e", "t", "e">>, <<"s", "u", "c", "c", "e", "s", "s">>}) THEN Complete
        ELSE IF contains_any(class_attr, {<<"p", "e", "n", "d", "i", "n", "g">>, <<"p", "r", "o", "c", "e", "s", "s", "i", "n", "g">>}) THEN Processing
        ELSE IF contains_any(class_attr, {<<"e", "r", "r", "o", "r">>, <<"f", "a", "i", "l">>})
          THEN Error(<<"s", "t", "a", "t", "u", "s", " ", "c", "l", "a", "s", "s", " ", "i", "n", "d", "i", "c", "a", "t", "e", "s", " ", "f", "a", "i", "l", "u", "r", "e">>)
        ELSE Complete

\* The document that Html::parse_document makes of list.html, as the
\* selectors see it: the rows (tr) with their links, text and class, the
\* links (a) outside the rows and the scripts, in the order of the page.
Tr(links, text, class) == [tag |-> "tr", links |-> links, text |-> text, class |-> class]
A(href) == [tag |-> "a", links |-> <<href>>, text |-> <<>>, class |-> <<>>]
Script(text) == [tag |-> "script", links |-> <<>>, text |-> text, class |-> <<>>]

RECURSIVE Concat(_)
Concat(seqs) == IF Len(seqs) = 0 THEN <<>> ELSE Head(seqs) \o Concat(Tail(seqs))

\* the html of a document, where strategy 4 searches
Anchor(href) == <<"<", "a", " ", "h", "r", "e", "f", "=", "\"">> \o href \o <<"\"", ">", "<", "/", "a", ">">>
Element(e) ==
    IF e.tag = "tr"
      THEN <<"<", "t", "r", " ", "c", "l", "a", "s", "s", "=", "\"">> \o e.class \o <<"\"", ">", "<", "t", "d", ">">>
           \o Concat([i \in 1..Len(e.links) |-> Anchor(e.links[i])])
           \o e.text \o <<"<", "/", "t", "d", ">", "<", "/", "t", "r", ">">>
    ELSE IF e.tag = "a" THEN Anchor(e.links[1])
    ELSE <<"<", "s", "c", "r", "i", "p", "t", ">">> \o e.text \o <<"<", "/", "s", "c", "r", "i", "p", "t", ">">>
Html(document) == Concat([i \in 1..Len(document) |-> Element(document[i])])

\* document.select(&ROW_SELECTOR), document.select(&ANY_LINK_SELECTOR) and
\* LINK_SELECTOR: a[href*='read.html'], a[href*='read']
IsRow(e) == e.tag = "tr"
Rows(document) == SelectSeq(document, IsRow)
Links(document) == Concat([i \in 1..Len(document) |-> document[i].links])
IsReadLink(href) == contains(href, <<"r", "e", "a", "d">>)
ReadLinks(links) == SelectSeq(links, IsReadLink)

\* strategy 1: of every row the first read link, if it holds a job id
HasRowJob(row) ==
    /\ ReadLinks(row.links) # <<>>
    /\ extract_job_id_from_href(Head(ReadLinks(row.links))).tag = "Some"
RowJob(row) ==
    LET href == Head(ReadLinks(row.links)) IN
      AuditJob(extract_job_id_from_href(href).val, extract_status_from_row(row), Some(href))
Strategy1(document) ==
    LET rows == SelectSeq(Rows(document), HasRowJob) IN
      [i \in 1..Len(rows) |-> RowJob(rows[i])]

\* strategy 2: every read link that holds a job id
HasJobId(href) == extract_job_id_from_href(href).tag = "Some"
Strategy2(document) ==
    LET links == SelectSeq(ReadLinks(Links(document)), HasJobId) IN
      [i \in 1..Len(links) |->
          AuditJob(extract_job_id_from_href(links[i]).val,
                   Unknown(<<"f", "a", "l", "l", "b", "a", "c", "k", " ", "e", "x", "t", "r", "a", "c", "t", "i", "o", "n">>), Some(links[i]))]

\* strategy 3: every link with the JobQueueRun pattern in its href
HasJobQueue(href) == JobQueueStarts(href) # {}
Strategy3(document) ==
    LET links == SelectSeq(Links(document), HasJobQueue) IN
      [i \in 1..Len(links) |->
          AuditJob(JobQueueMatch(links[i]), Unknown(<<"p", "a", "t", "t", "e", "r", "n", " ", "m", "a", "t", "c", "h">>), Some(links[i]))]

\* strategy 4: the JobQueueRun pattern in the html
Strategy4(document) ==
    IF HasJobQueue(Html(document))
      THEN <<AuditJob(JobQueueMatch(Html(document)), Unknown(<<"t", "e", "x", "t", " ", "e", "x", "t", "r", "a", "c", "t", "i", "o", "n">>), NoneVal)>>
      ELSE <<>>

parse_newest_job_mutant(document) ==
    LET jobs == IF Strategy2(document) # <<>> THEN Strategy2(document)
                ELSE IF Strategy1(document) # <<>> THEN Strategy1(document)
                ELSE IF Strategy3(document) # <<>> THEN Strategy3(document)
                ELSE Strategy4(document)
    IN  IF jobs = <<>> THEN Err("NoJobFound") ELSE Ok(Head(jobs))
\* parse_newest_job: the jobs of the first strategy that finds any, and of
\* them the first
parse_newest_job(document) ==
    LET jobs == IF Strategy1(document) # <<>> THEN Strategy1(document)
                ELSE IF Strategy2(document) # <<>> THEN Strategy2(document)
                ELSE IF Strategy3(document) # <<>> THEN Strategy3(document)
                ELSE Strategy4(document)
    IN  IF jobs = <<>> THEN Err("NoJobFound") ELSE Ok(Head(jobs))

\* The parts of list pages: rows of jobs in every state, a heading row, a
\* row whose first read link holds no id, links outside the rows with and
\* without a job, scripts with and without one.
OtherJobId == <<"J", "o", "b", "Q", "u", "e", "u", "e", "R", "u", "n", "!", "!", "X", "Y", "9">>
Elements ==
    { Tr(<<ReadPath \o IdQuery \o PlainJobId>>, <<"V", "i", "e", "w", " ", "C", "o", "m", "p", "l", "e", "t", "e">>, <<>>),
      Tr(<<ReadPath \o IdQuery \o OtherJobId>>, <<"V", "i", "e", "w">>, <<"j", "o", "b">>),
      Tr(<<ReadPath \o SessionSegment \o IdQuery \o EncodedJobId>>, <<"I", "n", " ", "P", "r", "o", "g", "r", "e", "s", "s">>, <<"c", "o", "m", "p", "l", "e", "t", "e">>),
      Tr(<<ReadPath \o IdQuery \o OtherJobId>>, <<" ", "F", "a", "i", "l", "e", "d", " ">>, <<>>),
      Tr(<<>>, <<"A", "u", "d", "i", "t", " ", "S", "t", "a", "t", "u", "s">>, <<"h", "e", "a", "d">>),
      Tr(<<ReadPath, ReadPath \o IdQuery \o OtherJobId>>, <<"Q", "u", "e", "u", "e", "d">>, <<>>),
      A(ReadPath \o IdQuery \o EncodedJobId \o OtherParameter),
      A(PatternHref),
      A(NoJobHref),
      Script(<<"j", "o", "b", "=", "'", "J", "o", "b", "Q", "u", "e", "u", "e", "R", "u", "n", "%", "2", "1", "%", "2", "1", "X", "Y", "9", "'", ";">>),
      Script(<<"a", "u", "t", "o", "P", "o", "l", "l", "(", ")", ";">>) }

\* the documents of one or two parts, and the empty one
Documents ==
    {<<>>} \cup {<<e>> : e \in Elements} \cup {<<e, f>> : e, f \in Elements}

\* the list pages that the server of the flows sends: empty, or one row
ListPages == {<<>>} \cup {<<e>> : e \in {e \in Elements : IsRow(e)}}

\* ------------------------------------------------------- urlencoding::encode
\* 'A'..='Z' | 'a'..='z' | '0'..='9' | '-' | '_' | '.' | '~'
Unreserved(c) == WordChar(c) \/ c \in {".", "~"}

\* c.to_string().as_bytes() with every byte as {:02X}, for the characters
\* outside that set that the ids below are made of; "U+00E9" stands for
\* the one character e with acute, of two bytes
Utf8Hex ==
    [c \in {"!", "%", " ", "/", "&", "=", "U+00E9"} |->
        CASE c = "!" -> <<<<"2", "1">>>>
          [] c = "%" -> <<<<"2", "5">>>>
          [] c = " " -> <<<<"2", "0">>>>
          [] c = "/" -> <<<<"2", "F">>>>
          [] c = "&" -> <<<<"2", "6">>>>
          [] c = "=" -> <<<<"3", "D">>>>
          [] c = "U+00E9" -> <<<<"C", "3">>, <<"A", "9">>>>]

encode_char_mutant(c) ==
    IF Unreserved(c) \/ c = "!" THEN <<c>>
    ELSE Concat([i \in 1..Len(Utf8Hex[c]) |-> <<"%">> \o Utf8Hex[c][i]])
\* encode, the body of the loop: what one character adds to the result
encode_char(c) ==
    IF Unreserved(c) THEN <<c>>
    ELSE Concat([i \in 1..Len(Utf8Hex[c]) |-> <<"%">> \o Utf8Hex[c][i]])

\* urlencoding::encode
encode(s) == Concat([i \in 1..Len(s) |-> encode_char(s[i])])

\* fetch_audit_html: READ_PATH, and the URL of the request,
\* format!("{}{}?id={}", base_url, READ_PATH, encode(job_id))
READ_PATH == <<"/", "a", "u", "d", "i", "t", "/", "r", "e", "a", "d", ".", "h", "t", "m", "l">>
read_url(base_url, job_id) == base_url \o READ_PATH \o IdQuery \o encode(job_id)

\* job ids that JOBQUEUE_REGEX matches and whose letters spell an indicator
ShibJobId == <<"J", "o", "b", "Q", "u", "e", "u", "e", "R", "u", "n", "!", "!", "S", "H", "I", "B", "0", "1">>
SamlJobId == <<"J", "o", "b", "Q", "u", "e", "u", "e", "R", "u", "n", "!", "!", "x", "_", "s", "a", "m", "l", "-", "7">>
JobIds == {PlainJobId, OtherJobId, ShibJobId, SamlJobId}

\* the URLs of the read requests
ReadUrls == {read_url(base_url, job_id) : base_url \in {DARS_BASE_URL, PortBaseUrl}, job_id \in JobIds}

\* ------------------------------- DegreeAuditClient::execute_audit_flow
\* check_session_valid, the loop over the indicators:
\* url.to_lowercase().contains(indicator) for one of them
IndicatesSso(url) ==
    \E indicator \in sso_indicators : contains(to_lowercase(url), indicator)

\* the URLs of the server on which that loop finds an indicator
SsoUrls == {url \in Urls \cup ReadUrls : IndicatesSso(url)}

check_session_valid_mutant(response) == Ok("valid")
\* check_session_valid: SessionExpired if the URL of the response has an
\* indicator in it
check_session_valid(response) ==
    IF response.url \in SsoUrls THEN Err("SessionExpired") ELSE Ok("valid")

\* str::starts_with
starts_with(s, prefix) == MatchesAt(s, prefix, 1)

\* where in s the pattern stands first (0 if nowhere) at or after `from`
Find(s, pattern, from) ==
    IF \E i \in from..Len(s) : MatchesAt(s, pattern, i)
      THEN CHOOSE i \in from..Len(s) :
             MatchesAt(s, pattern, i) /\ \A j \in from..(i - 1) : ~MatchesAt(s, pattern, j)
      ELSE 0

\* where the host of a URL ends whose host begins at `from`: before the
\* port, the path, the query or the fragment
HostEnd(url, from) ==
    IF \E i \in from..Len(url) : url[i] \in {":", "/", "?", "#"}
      THEN (CHOOSE i \in from..Len(url) :
              /\ url[i] \in {":", "/", "?", "#"}
              /\ \A j \in from..(i - 1) : url[j] \notin {":", "/", "?", "#"}) - 1
      ELSE Len(url)

\* Url::parse, for URLs of the form scheme://host[:port][/path]: the
\* scheme() and the host_str() of the result; a string with nothing after
\* the scheme is an error (From<url::ParseError>: UrlError)
UrlParse(url) ==
    LET colon == Find(url, <<":", "/", "/">>, 1) IN
      IF colon <= 1 \/ HostEnd(url, colon + 3) < colon + 3 THEN Err("UrlError")
      ELSE Ok([scheme |-> SubSeq(url, 1, colon - 1),
               host_str |-> SubSeq(url, colon + 3, HostEnd(url, colon + 3))])

\* trigger_create: absolute_url, built from the Location in one of three ways
absolute_url(base_url, location) ==
    IF starts_with(location, <<"h", "t", "t", "p">>) THEN Ok(location)
    ELSE IF starts_with(location, <<"/">>)
      THEN LET base == UrlParse(base_url) IN
             IF base.tag = "Err" THEN base
             ELSE Ok(base.val.scheme \o <<":", "/", "/">> \o base.val.host_str \o location)
    ELSE Ok(base_url \o <<"/">> \o location)

\* trigger_create, given config.base_url, the response to the create
\* request and the Location header it carries
trigger_create(base_url, response, location) ==
    IF ~response.sent THEN Err("Network")
    ELSE IF check_session_valid(response).tag = "Err" THEN check_session_valid(response)
    ELSE IF response.status \in {302, 303, 301}
      THEN IF location.tag = "None" THEN Err("UnexpectedResponse")
           ELSE absolute_url(base_url, location.val)
    ELSE IF response.status = 200 THEN Ok(base_url \o LIST_PATH \o AutoPoll)
    ELSE Err("UnexpectedResponse")

\* fetch_list_and_discover, given the response to the list request, whether
\* its body can be read and what the body holds
fetch_list_and_discover(response, text_ok, page) ==
    IF ~response.sent THEN Err("Network")
    ELSE IF check_session_valid(response).tag = "Err" THEN check_session_valid(response)
    ELSE IF response.status # 200 THEN Err("UnexpectedResponse")
    ELSE IF ~text_ok THEN Err("Network")
    ELSE parse_newest_job(page)

\* fetch_audit_html, given the response to the read request
fetch_audit_html(response, text_ok) ==
    IF ~response.sent THEN Err("Network")
    ELSE IF check_session_valid(response).tag = "Err" THEN check_session_valid(response)
    ELSE IF response.status # 200 THEN Err("UnexpectedResponse")
    ELSE IF ~text_ok THEN Err("Network")
    ELSE Ok("html")

\* the flow after one more request to the server, or the parse of what it sent
Requested(request) == [flow EXCEPT !.log = Append(@, request)]

FlowEnds_mutant(f, result) == [f EXCEPT !.result = result]
\* execute_audit_flow returns `result`: `?` on an Err, or the end of the body
FlowEnds(f, result) == [f EXCEPT !.pc = "done", !.result = result]

OutOfAttempts_early(attempts) == attempts >= max_poll_attempts
OutOfAttempts_late(attempts) == attempts > max_poll_attempts + 1
\* poll_until_ready: attempts > self.config.max_poll_attempts
OutOfAttempts(attempts) == attempts > max_poll_attempts

\* poll_until_ready: start.elapsed() > self.config.max_poll_timeout
OutOfTime(start) == elapsed(start) > max_poll_timeout

\* step 1: trigger_create(cookies)?
FlowCreate(base_url, response, location) ==
    /\ pc[1] = "in_flow" /\ flow.pc = "create"
    /\ LET list_url == trigger_create(base_url, response, location) IN
         IF list_url.tag = "Err"
           THEN flow' = FlowEnds(Requested("create"), list_url)
           ELSE flow' = [Requested("create") EXCEPT !.pc = "discover"]
    /\ UNCHANGED <<now, cacheVars, breakerVars, lockVars, taskVars, ghostVars>>

\* step 2: fetch_list_and_discover(list_url)?; step 3: a job that is ready
\* needs no polling, any other job goes to poll_until_ready, which notes the
\* time of its start
FlowDiscover(response, text_ok, page) ==
    /\ pc[1] = "in_flow" /\ flow.pc = "discover"
    /\ LET job == fetch_list_and_discover(response, text_ok, page)
           n == flow.discoveries + 1 IN
         IF job.tag = "Err"
           THEN flow' = FlowEnds([Requested("list") EXCEPT !.discoveries = n], job)
         ELSE IF is_ready(job.val.status)
           THEN flow' = [Requested("list") EXCEPT
                           !.pc = "read", !.job = job.val, !.discoveries = n,
                           !.ready_job_id = job.val.job_id]
         ELSE flow' = [Requested("list") EXCEPT
                         !.pc = "poll", !.job = job.val, !.discoveries = n,
                         !.start = now, !.attempts = 0]
    /\ UNCHANGED <<now, cacheVars, breakerVars, lockVars, taskVars, ghostVars>>

PollCheck_mutant ==
    /\ pc[1] = "in_flow" /\ flow.pc = "poll"
    /\ LET attempts == flow.attempts + 1 IN
         IF OutOfAttempts(attempts) \/ OutOfTime(flow.start)
           THEN flow' = [flow EXCEPT !.pc = "done", !.result = Err("PollTimeout"),
                                     !.attempts = attempts]
         ELSE IF is_ready(flow.job.status)
           THEN flow' = [flow EXCEPT !.pc = "read", !.ready_job_id = flow.job.job_id]
         ELSE IF is_failed(flow.job.status) THEN flow' = FlowEnds(flow, Err("JobFailed"))
         ELSE flow' = [flow EXCEPT !.pc = "sleep", !.attempts = attempts,
                                   !.sleeps = flow.sleeps + 1]
    /\ UNCHANGED <<now, cacheVars, breakerVars, lockVars, taskVars, ghostVars>>

\* poll_until_ready, the head of the loop: ready, failed, or out of
\* attempts or of time; otherwise the backoff sleep begins
PollCheck ==
    /\ pc[1] = "in_flow" /\ flow.pc = "poll"
    /\ LET attempts == flow.attempts + 1 IN
         IF is_ready(flow.job.status)
           THEN flow' = [flow EXCEPT !.pc = "read", !.ready_job_id = flow.job.job_id]
         ELSE IF is_failed(flow.job.status) THEN flow' = FlowEnds(flow, Err("JobFailed"))
         ELSE IF OutOfAttempts(attempts)
           THEN flow' = [flow EXCEPT !.pc = "done", !.result = Err("PollTimeout"),
                                     !.attempts = attempts]
         ELSE IF OutOfTime(flow.start)
           THEN flow' = [flow EXCEPT !.pc = "done", !.result = Err("PollTimeout"),
                                     !.attempts = attempts]
         ELSE flow' = [flow EXCEPT !.pc = "sleep", !.attempts = attempts,
                                   !.sleeps = flow.sleeps + 1]
    /\ UNCHANGED <<now, cacheVars, breakerVars, lockVars, taskVars, ghostVars>>

\* poll_until_ready, the rest of the loop: the sleep is over and the list
\* page is fetched again
PollRefetch(response, text_ok, page) ==
    /\ pc[1] = "in_flow" /\ flow.pc = "sleep"
    /\ LET job == fetch_list_and_discover(response, text_ok, page)
           n == flow.discoveries + 1 IN
         IF job.tag = "Err"
           THEN flow' = FlowEnds([Requested("list") EXCEPT !.discoveries = n], job)
           ELSE flow' = [Requested("list") EXCEPT
                           !.pc = "poll", !.job = job.val, !.discoveries = n]
    /\ UNCHANGED <<now, cacheVars, breakerVars, lockVars, taskVars, ghostVars>>

\* step 4: fetch_audit_html(&ready_job_id)?
FlowRead(response, text_ok) ==
    /\ pc[1] = "in_flow" /\ flow.pc = "read"
    /\ LET html == fetch_audit_html(response, text_ok) IN
         IF html.tag = "Err"
           THEN flow' = FlowEnds([Requested("read") EXCEPT
                                    !.requested = flow.ready_job_id], html)
           ELSE flow' = [Requested("read") EXCEPT
                           !.pc = "parse", !.requested = flow.ready_job_id]
    /\ UNCHANGED <<now, cacheVars, breakerVars, lockVars, taskVars, ghostVars>>

\* step 5: parse_degree_audit_html(..).map_err(ParseError)
FlowParse(parsed) ==
    /\ pc[1] = "in_flow" /\ flow.pc = "parse"
    /\ flow' = FlowEnds(Requested("parse"), parsed)
    /\ UNCHANGED <<now, cacheVars, breakerVars, lockVars, taskVars, ghostVars>>

\* the steps of execute_audit_flow, whatever the server answers
FlowStep ==
    \/ \E base_url \in BaseUrls, response \in Responses, location \in Locations :
          FlowCreate(base_url, response, location)
    \/ \E response \in Responses, text_ok \in BOOLEAN, page \in ListPages :
          \/ FlowDiscover(response, text_ok, page)
          \/ PollRefetch(response, text_ok, page)
    \/ PollCheck
    \/ \E response \in Responses, text_ok \in BOOLEAN : FlowRead(response, text_ok)
    \/ \E parsed \in {Ok(a) : a \in Audits} \cup {Err("ParseError")} : FlowParse(parsed)

\* ------------------------------------------------------------------
\* The system: two concurrent get_or_create_audit callers of one session,
\* each calling again and again, against an upstream that may answer
\* anything.
Clients == {1, 2}

Next ==
    \/ Tick
    \/ \E r \in Clients, f \in BOOLEAN : Start(r, "c1", f, FALSE)
    \/ \E r \in Clients, o \in FlowOutcomes : FlowFinish(r, o)
    \/ \E r \in Clients : FetchStep(r) \/ BreakerStep(r)

Spec == Init /\ [][Next]_vars

\* Callers of two sessions against an upstream that succeeds (the breaker
\* stays closed).
KeysNext ==
    \/ Tick
    \/ \E r \in Clients, c \in Cookies, f \in BOOLEAN : Start(r, c, f, FALSE)
    \/ \E r \in Clients, a \in Audits : FlowFinish(r, Ok(a))
    \/ \E r \in Clients : FetchStep(r) \/ IsOpenLoad(r) \/ RecordSuccess(r)

KeysSpec == Init /\ [][KeysNext]_vars

\* One caller, one call after another, for either session, against an
\* upstream that may answer anything; the caller notes what it could see
\* of the cache and the breaker when it made the call.
SoloNext ==
    \/ Tick
    \/ \E c \in Cookies, f \in BOOLEAN : Start(1, c, f, TRUE)
    \/ \E o \in FlowOutcomes : FlowFinish(1, o)
    \/ CacheCheck(1) \/ CacheRemove(1) \/ GetLock(1) \/ PostLockCheck(1)
    \/ FlowStart(1) \/ Insert(1) \/ Return(1)
    \/ BreakerStep(1)

SoloSpec == Init /\ [][SoloNext]_vars

\* Two callers that classify errors: each call hands one variant of
\* DegreeAuditError to is_retryable or to needs_reauth and gets the answer.
CallIsRetryable(r, e) ==
    /\ pc[r] = "idle"
    /\ call' = [call EXCEPT ![r] = "is_retryable"]
    /\ args' = [args EXCEPT ![r] = [error |-> e]]
    /\ ret' = [ret EXCEPT ![r] = Bool(is_retryable(e))]
    /\ UNCHANGED <<now, flow, cacheVars, breakerVars, lockVars, pc, executed, ghostVars>>

CallNeedsReauth(r, e) ==
    /\ pc[r] = "idle"
    /\ call' = [call EXCEPT ![r] = "needs_reauth"]
    /\ args' = [args EXCEPT ![r] = [error |-> e]]
    /\ ret' = [ret EXCEPT ![r] = Bool(needs_reauth(e))]
    /\ UNCHANGED <<now, flow, cacheVars, breakerVars, lockVars, pc, executed, ghostVars>>

ErrorNext ==
    \E r \in Clients, e \in ErrorVariants :
        CallIsRetryable(r, e) \/ CallNeedsReauth(r, e)

ErrorSpec == Init /\ [][ErrorNext]_vars

\* Callers that hand one href each of a list page to
\* extract_job_id_from_href and get its answer.
CallExtract(r, href) ==
    /\ pc[r] = "idle"
    /\ call' = [call EXCEPT ![r] = "extract_job_id_from_href"]
    /\ args' = [args EXCEPT ![r] = [href |-> href]]
    /\ ret' = [ret EXCEPT ![r] = extract_job_id_from_href(href)]
    /\ UNCHANGED <<now, flow, cacheVars, breakerVars, lockVars, pc, executed, ghostVars>>

ExtractNext == \E r \in Clients, href \in Hrefs : CallExtract(r, href)

ExtractSpec == Init /\ [][ExtractNext]_vars

\* One call of get_or_create_audit on a new client, with
\* execute_audit_flow followed step by step against a server that may
\* answer anything: the flow returns what its steps have come to. The
\* breaker has counted nothing and the cache is empty when the call begins,
\* so is_open needs no lock and no entry is there to remove.
FlowNext ==
    \/ Tick
    \/ \E f \in BOOLEAN : call[1] = "none" /\ Start(1, "c1", f, FALSE)
    \/ IsOpenLoad(1)
    \/ CacheCheck(1) \/ GetLock(1) \/ PostLockCheck(1)
    \/ FlowStart(1)
    \/ FlowStep
    \/ flow.pc = "done" /\ FlowFinish(1, flow.result)
    \/ RecordSuccess(1) \/ RecordFailureAdd(1) \/ RecordFailureStamp(1)
    \/ Insert(1) \/ Return(1)

FlowSpec == Init /\ [][FlowNext]_vars

\* The same, with every request answered (or timed out by the HTTP client)
\* and every sleep ended in the end.
FlowLiveSpec == FlowSpec /\ WF_vars(FlowStep)

\* Up to NumReqs concurrent callers (each calls before any call has
\* returned), each making one call with the same credential and
\* force_refresh = false, starting from the empty cache and the closed
\* breaker, against an upstream that succeeds.
NoneReturned == \A q \in Reqs : call[q] = "none" \/ pc[q] # "idle"

DedupNext ==
    \/ Tick
    \/ \E r \in Reqs : NoneReturned /\ Start(r, "c1", FALSE, FALSE)
    \/ \E r \in Reqs, a \in Audits : FlowFinish(r, Ok(a))
    \/ \E r \in Reqs : FetchStep(r) \/ IsOpenLoad(r) \/ RecordSuccess(r)

DedupSpec == Init /\ [][DedupNext]_vars

\* Three callers of one session, each calling again and again, against an
\* upstream that succeeds.
Callers == {1, 2, 3}

SameKeyNext ==
    \/ Tick
    \/ \E r \in Callers, f \in BOOLEAN : Start(r, "c1", f, FALSE)
    \/ \E r \in Callers, a \in Audits : FlowFinish(r, Ok(a))
    \/ \E r \in Callers : FetchStep(r) \/ IsOpenLoad(r) \/ RecordSuccess(r)

SameKeySpec == Init /\ [][SameKeyNext]_vars

\* ------------------------------------- direct calls of the CircuitBreaker
\* a call made when the last record_failure call is a recovery window or
\* more ago is outside the window
OutsideWindow == streak_at # None /\ elapsed(streak_at) >= recovery_time

\* is_open() is called; `track` says whether the caller keeps the record of
\* its calls (seen, streak) that a single thread can keep
CallIsOpen(r, track) ==
    /\ Invoke(r, "is_open", NoArgs, "is_open")
    /\ healed' = [healed EXCEPT ![r] = /\ failure_count >= threshold
                                       /\ last_failure # None
                                       /\ elapsed(last_failure) > recovery_time]
    /\ IF track
         THEN Snapshot(r, "none") /\ streak' = IF OutsideWindow THEN -1 ELSE streak
         ELSE UNCHANGED <<seen, streak>>
    /\ UNCHANGED <<now, flow, cacheVars, breakerVars, lockVars, executed, offered, streak_at>>

\* record_failure() is called
CallRecordFailure(r, track) ==
    /\ failure_count < MaxFailures
    /\ Invoke(r, "record_failure", NoArgs, "record_failure")
    /\ IF track
         THEN /\ streak' = IF streak = -1 \/ OutsideWindow THEN -1 ELSE streak + 1
              /\ streak_at' = now
         ELSE UNCHANGED <<streak, streak_at>>
    /\ UNCHANGED <<now, flow, cacheVars, breakerVars, lockVars, executed, seen, offered, healed>>

\* record_success() is called
CallRecordSuccess(r, track) ==
    /\ Invoke(r, "record_success", NoArgs, "record_success")
    /\ IF track
         THEN streak' = 0 /\ streak_at' = None
         ELSE UNCHANGED <<streak, streak_at>>
    /\ UNCHANGED <<now, flow, cacheVars, breakerVars, lockVars, executed, seen, offered, healed>>

BreakerCall(r, track) ==
    CallIsOpen(r, track) \/ CallRecordFailure(r, track) \/ CallRecordSuccess(r, track)

\* two threads calling the breaker concurrently
BreakerNext ==
    \/ Tick
    \/ \E r \in Clients : BreakerCall(r, FALSE) \/ BreakerStep(r)

BreakerSpec == Init /\ [][BreakerNext]_vars

\* one thread calling the breaker, one call after another; a call takes no time
BreakerSeqNext ==
    \/ pc[1] = "idle" /\ Tick
    \/ BreakerCall(1, TRUE)
    \/ BreakerStep(1)

BreakerSeqSpec == Init /\ [][BreakerSeqNext]_vars

\* ---------------------------------------- direct calls of the AuditCache
CallArgs(c) == [cookies |-> c, force_refresh |-> FALSE]

\* a call that is one access of the map: made and returned in one step
Atomic(r, name, a, key) ==
    /\ pc[r] = "idle"
    /\ call' = [call EXCEPT ![r] = name]
    /\ args' = [args EXCEPT ![r] = a]
    /\ ret' = [ret EXCEPT ![r] = Unit]
    /\ Snapshot(r, key)
    /\ UNCHANGED <<now, flow, breakerVars, lockVars, pc, executed, offered, healed, streak, streak_at>>

\* get(key) is called
CallGet(r, c) ==
    /\ Invoke(r, "get", CallArgs(c), "get")
    /\ Snapshot(r, from_cookie(c))
    /\ UNCHANGED <<now, flow, cacheVars, breakerVars, lockVars, executed, offered, healed,
                   streak, streak_at>>

\* insert_with_ttl(key, result, ttl)
CallInsertWithTtl(r, c, a, ttl) ==
    /\ Atomic(r, "insert_with_ttl", CallArgs(c), from_cookie(c))
    /\ entries' = Inserted(entries, from_cookie(c), CachedAudit(a, ttl))

\* invalidate(key)
CallInvalidate(r, c) ==
    /\ Atomic(r, "invalidate", CallArgs(c), from_cookie(c))
    /\ entries' = Removed(entries, from_cookie(c))

\* clear()
CallClear(r) ==
    /\ Atomic(r, "clear", NoArgs, "none")
    /\ entries' = <<>>

CallCleanupExpired_mutant(r) ==
    /\ Atomic(r, "cleanup_expired", NoArgs, "none")
    /\ entries' = [k \in {x \in DOMAIN entries : ~Fresh(entries[x])} |-> entries[k]]
\* cleanup_expired(): retain(|_, entry| entry.cached_at.elapsed() < entry.ttl)
CallCleanupExpired(r) ==
    /\ Atomic(r, "cleanup_expired", NoArgs, "none")
    /\ entries' = [k \in {x \in DOMAIN entries : Fresh(entries[x])} |-> entries[k]]

CacheCall(r) ==
    \/ \E c \in Cookies : CallGet(r, c) \/ CallInvalidate(r, c)
    \/ \E c \in Cookies, a \in Audits, ttl \in 0..default_ttl : CallInsertWithTtl(r, c, a, ttl)
    \/ CallClear(r)
    \/ CallCleanupExpired(r)

\* one thread calling the cache, one call after another; a call takes no time
CacheSeqNext ==
    \/ pc[1] = "idle" /\ Tick
    \/ CacheCall(1)
    \/ CacheStep(1)

CacheSeqSpec == Init /\ [][CacheSeqNext]_vars

\* DegreeAuditClient::invalidate_cache(cookies):
\* self.cache_state.cache.invalidate(&SessionKey::from_cookie(cookies))
InvalidateCache(r, c) ==
    /\ pc[r] = "idle"
    /\ call' = [call EXCEPT ![r] = "invalidate_cache"]
    /\ args' = [args EXCEPT ![r] = CallArgs(c)]
    /\ ret' = [ret EXCEPT ![r] = Unit]
    /\ entries' = Removed(entries, from_cookie(c))
    /\ UNCHANGED <<now, flow, breakerVars, lockVars, pc, executed, ghostVars>>

\* One caller, one call after another, for either session:
\* get_or_create_audit against an upstream that may answer anything,
\* invalidate_cache, and get on the cache of the client.
InvalidateNext ==
    \/ Tick
    \/ \E c \in Cookies, f \in BOOLEAN : Start(1, c, f, FALSE)
    \/ \E o \in FlowOutcomes : FlowFinish(1, o)
    \/ CacheCheck(1) \/ CacheRemove(1) \/ GetLock(1) \/ PostLockCheck(1)
    \/ FlowStart(1) \/ Insert(1) \/ Return(1)
    \/ BreakerStep(1)
    \/ \E c \in Cookies : InvalidateCache(1, c)
    \/ \E c \in Cookies : Invoke(1, "get", CallArgs(c), "get")
                          /\ UNCHANGED <<now, flow, cacheVars, breakerVars, lockVars,
                                         executed, ghostVars>>
    \/ CacheStep(1)

InvalidateSpec == Init /\ [][InvalidateNext]_vars

\* ------------------------------------- server/endpoints/degree_audit.rs
audit_error_to_response_mutant(e) == IF needs_reauth(e) THEN 401 ELSE 500
\* audit_error_to_response: the status code of the response
audit_error_to_response(e) ==
    CASE e = "SessionExpired" -> 401
      [] e = "NoSession" -> 401
      [] e = "CircuitBreakerOpen" -> 503
      [] e = "PollTimeout" -> 504
      [] e = "CookieFetchError" -> 502
      [] OTHER -> 500

\* Handlers that turn one error each into a response.
CallErrorToResponse(r, e) ==
    /\ pc[r] = "idle"
    /\ call' = [call EXCEPT ![r] = "audit_error_to_response"]
    /\ args' = [args EXCEPT ![r] = [error |-> e]]
    /\ ret' = [ret EXCEPT ![r] = [tag |-> "Response", val |-> audit_error_to_response(e)]]
    /\ UNCHANGED <<now, flow, cacheVars, breakerVars, lockVars, pc, executed, ghostVars>>

ResponseNext == \E r \in Clients, e \in ErrorVariants : CallErrorToResponse(r, e)

ResponseSpec == Init /\ [][ResponseNext]_vars

\* ------------------------------------------- direct calls of trigger_create
\* One caller that hands trigger_create a base URL, a response and its
\* Location header, and gets the list URL or the error.
CallTriggerCreate(r, base_url, response, location) ==
    /\ pc[r] = "idle"
    /\ call' = [call EXCEPT ![r] = "trigger_create"]
    /\ args' = [args EXCEPT ![r] = [base_url |-> base_url, response |-> response,
                                    location |-> location]]
    /\ ret' = [ret EXCEPT ![r] = trigger_create(base_url, response, location)]
    /\ UNCHANGED <<now, flow, cacheVars, breakerVars, lockVars, pc, executed, ghostVars>>

CreateNext ==
    \E base_url \in BaseUrls, response \in Responses, location \in Locations :
        CallTriggerCreate(1, base_url, response, location)

CreateSpec == Init /\ [][CreateNext]_vars

\* ------------------------------------------------------ calculate_poll_delay
\* config.poll_interval_base in milliseconds: the default and a longer one
PollBases == {500, 3000}

\* Ord::min
min(a, b) == IF a <= b THEN a ELSE b

\* u32::saturating_sub
saturating_sub(a, b) == IF a >= b THEN a - b ELSE 0

calculate_poll_delay_mutant(base, attempt, jitter) ==
    base * 2 ^ min(saturating_sub(attempt, 1), 5) + jitter
\* calculate_poll_delay, given the number that thread_rng() draws; the
\* products stay far below 2^64 for these bases
calculate_poll_delay(base, attempt, jitter) ==
    LET exponential == base * 2 ^ min(saturating_sub(attempt, 1), 5)
        capped == min(exponential, 10000)
    IN  capped + jitter

\* gen_range(0..=(capped / 5)): the ends of the range, their neighbours and
\* the middle of it
JitterRange(base, attempt) ==
    LET capped == calculate_poll_delay(base, attempt, 0) IN
      {0, 1, capped \div 10, capped \div 5 - 1, capped \div 5}

CallPollDelay(r, base, attempt, jitter) ==
    /\ pc[r] = "idle"
    /\ call' = [call EXCEPT ![r] = "calculate_poll_delay"]
    /\ args' = [args EXCEPT ![r] = [base |-> base, attempt |-> attempt]]
    /\ ret' = [ret EXCEPT ![r] = calculate_poll_delay(base, attempt, jitter)]
    /\ UNCHANGED <<now, flow, cacheVars, breakerVars, lockVars, pc, executed, ghostVars>>

DelayNext ==
    \E r \in Clients, base \in PollBases, attempt \in 0..MaxAttempt :
        \E jitter \in JitterRange(base, attempt) :
            CallPollDelay(r, base, attempt, jitter)

DelaySpec == Init /\ [][DelayNext]_vars

\* --------------------------------------------- direct calls of the parser
\* One caller that hands parse_newest_job the documents of list pages.
CallParse(r, document) ==
    /\ pc[r] = "idle"
    /\ call' = [call EXCEPT ![r] = "parse_newest_job"]
    /\ args' = [args EXCEPT ![r] = [html |-> document]]
    /\ ret' = [ret EXCEPT ![r] = parse_newest_job(document)]
    /\ UNCHANGED <<now, flow, cacheVars, breakerVars, lockVars, pc, executed, ghostVars>>

ParseNext == \E document \in Documents : CallParse(1, document)

ParseSpec == Init /\ [][ParseNext]_vars

\* The texts and the class attributes of rows that
\* extract_status_from_row is called for.
RowTexts ==
    { <<>>, <<"V", "i", "e", "w">>, <<"C", "o", "m", "p", "l", "e", "t", "e">>, <<"R", "E", "A", "D", "Y">>, <<"F", "i", "n", "i", "s", "h", "e", "d">>, <<"P", "r", "o", "c", "e", "s", "s", "i", "n", "g">>,
      <<"A", "l", "r", "e", "a", "d", "y", " ", "r", "u", "n", "n", "i", "n", "g">>, <<"P", "e", "n", "d", "i", "n", "g">>, <<"Q", "u", "e", "u", "e", "d">>, <<"I", "n", " ", "P", "r", "o", "g", "r", "e", "s", "s">>, <<"E", "r", "r", "o", "r">>,
      <<" ", "F", "a", "i", "l", "e", "d", " ">>, <<"f", "a", "i", "l", "u", "r", "e">>, <<"N", "o", "t", " ", "f", "i", "n", "i", "s", "h", "e", "d", ":", " ", "e", "r", "r", "o", "r">> }
RowClasses ==
    { <<>>, <<"r", "o", "w">>, <<"C", "o", "m", "p", "l", "e", "t", "e">>, <<"s", "u", "c", "c", "e", "s", "s">>, <<"p", "e", "n", "d", "i", "n", "g">>, <<"P", "r", "o", "c", "e", "s", "s", "i", "n", "g">>,
      <<"j", "o", "b", "-", "e", "r", "r", "o", "r">>, <<"f", "a", "i", "l">> }

CallStatus(r, text, class) ==
    /\ pc[r] = "idle"
    /\ call' = [call EXCEPT ![r] = "extract_status_from_row"]
    /\ args' = [args EXCEPT ![r] = [text |-> text, class |-> class]]
    /\ ret' = [ret EXCEPT ![r] = extract_status_from_row(Tr(<<>>, text, class))]
    /\ UNCHANGED <<now, flow, cacheVars, breakerVars, lockVars, pc, executed, ghostVars>>

StatusNext == \E text \in RowTexts, class \in RowClasses : CallStatus(1, text, class)

StatusSpec == Init /\ [][StatusNext]_vars

\* The strings handed to encode: the id of the test, the ids of the list
\* pages, and every string of at most two characters of a small alphabet.
TestJobId == <<"J", "o", "b", "Q", "u", "e", "u", "e", "R", "u", "n", "!", "!", "!", "!", "A", "B", "C">>
IdAlphabet == {"A", "z", "9", "-", "_", ".", "~", "!", "%", " ", "/", "&", "=", "U+00E9"}
EncodeInputs ==
    {TestJobId, PlainJobId, OtherJobId, <<>>}
    \cup {<<c>> : c \in IdAlphabet} \cup {<<c, d>> : c, d \in IdAlphabet}

CallEncode(r, s) ==
    /\ pc[r] = "idle"
    /\ call' = [call EXCEPT ![r] = "encode"]
    /\ args' = [args EXCEPT ![r] = [s |-> s]]
    /\ ret' = [ret EXCEPT ![r] = encode(s)]
    /\ UNCHANGED <<now, flow, cacheVars, breakerVars, lockVars, pc, executed, ghostVars>>

EncodeNext == \E s \in EncodeInputs : CallEncode(1, s)

EncodeSpec == Init /\ [][EncodeNext]_vars

\* ------------------------------------------------------------ cancellation
\* what a caller that has dropped its call has of it
Cancelled == [tag |-> "Cancelled", val |-> "dropped"]

\* a queue of a tokio Mutex after the task r has left it
Without(queue, r) ==
    IF \E i \in 1..Len(queue) : queue[i] = r
      THEN LET i == CHOOSE i \in 1..Len(queue) : queue[i] = r IN
             SubSeq(queue, 1, i - 1) \o SubSeq(queue, i + 1, Len(queue))
      ELSE queue

Cancel_mutant(r) ==
    /\ pc[r] \in {"lock_await", "in_flow"}
    /\ Finish(r, Cancelled)
    /\ UNCHANGED <<now, flow, cacheVars, breakerVars, lockVars, call, args, executed, ghostVars>>
\* The caller drops the future of get_or_create_audit at one of its
\* suspension points, lock.lock().await or an await of
\* execute_audit_flow: the wait for the lock ends and _guard, if there is
\* one, is dropped; nothing else of the function runs.
Cancel(r) ==
    /\ pc[r] \in {"lock_await", "in_flow"}
    /\ lock_queue' = [l \in LockIds |-> Without(lock_queue[l], r)]
    /\ Finish(r, Cancelled)
    /\ UNCHANGED <<now, flow, cacheVars, breakerVars, session_locks, call, args, executed, ghostVars>>

\* what execute_audit_flow returns to these callers: an audit, an error
\* that counts for the breaker or one that does not
LockOutcomes == {Ok("a1"), Err("Network"), Err("SessionExpired")}

\* Three callers of one session, each making one call, against an upstream
\* that may succeed or fail; a caller may drop its call.
LockNext ==
    \/ Tick
    \/ \E r \in Callers : call[r] = "none" /\ Start(r, "c1", FALSE, FALSE)
    \/ \E r \in Callers, o \in LockOutcomes : FlowFinish(r, o)
    \/ \E r \in Callers : FetchStep(r) \/ BreakerStep(r)
    \/ \E r \in Callers : Cancel(r)

LockSpec == Init /\ [][LockNext]_vars

\* a caller that does not drop its call is polled until it returns, and
\* every step of the protocol returns
Runs(r) == FetchStep(r) \/ BreakerStep(r) \/ \E o \in LockOutcomes : FlowFinish(r, o)

LockLiveSpec == LockSpec /\ \A r \in Callers : WF_vars(Runs(r))

\* Two threads on one key of the cache, one calling get and the other
\* insert_with_ttl, each one call after another, the steps of the gets
\* interleaved with the inserts.
CacheRaceNext ==
    \/ Tick
    \/ CallGet(1, "c1")
    \/ \E a \in Audits, ttl \in 0..default_ttl : CallInsertWithTtl(2, "c1", a, ttl)
    \/ CacheStep(1)

CacheRaceSpec == Init /\ [][CacheRaceNext]_vars

\* ------------------------- failures recorded while is_open is resetting
\* the failures thread 2 has recorded so far fall into one recovery window
InWindow == streak_at # None /\ elapsed(streak_at) <= recovery_time

\* record_failure() is called by a thread that counts the calls it has made
\* within one recovery window (streak) and notes when the window began
\* (streak_at)
CallRecordFailureInWindow(r) ==
    /\ failure_count < MaxFailures
    /\ Invoke(r, "record_failure", NoArgs, "record_failure")
    /\ streak' = IF InWindow THEN streak + 1 ELSE 1
    /\ streak_at' = IF InWindow THEN streak_at ELSE now
    /\ UNCHANGED <<now, flow, cacheVars, breakerVars, lockVars, executed, seen, offered, healed>>

\* thread 1 polls is_open; thread 2 records failures and successes, one call
\* after another, and asks is_open in between
BreakerLossNext ==
    \/ Tick
    \/ CallIsOpen(1, FALSE)
    \/ BreakerStep(1)
    \/ CallRecordFailureInWindow(2)
    \/ CallRecordSuccess(2, TRUE)
    \/ CallIsOpen(2, FALSE)
    \/ BreakerStep(2)

BreakerLossSpec == Init /\ [][BreakerLossNext]_vars

\* ------------------------------ a request that waits for the session lock
\* Client 1 refreshes the audit of a session again and again against an
\* upstream that may fail; client 2 asks once for the same session.
WaitNext ==
    \/ Tick
    \/ Start(1, "c1", TRUE, FALSE)
    \/ call[2] = "none" /\ Start(2, "c1", FALSE, FALSE)
    \/ \E r \in Clients, o \in LockOutcomes : FlowFinish(r, o)
    \/ \E r \in Clients : FetchStep(r) \/ BreakerStep(r)

WaitSpec == Init /\ [][WaitNext]_vars

\* The same, with every call that was made polled until it returns (the
\* runtime runs every task that can run, the upstream answers or the HTTP
\* client times out); whether a call is made at all is up to the callers.
WaitLiveSpec == WaitSpec /\ \A r \in Clients : WF_vars(Runs(r))

\* --------------------------------- a fetch after refreshes that may fail
\* One caller, one call after another for one session: some calls of
\* get_or_create_audit (slot 1 keeps the last of them), then one
\* force_refresh=false call (slot 2).
RefreshNext ==
    \/ Tick
    \/ \E f \in BOOLEAN : call[2] = "none" /\ Start(1, "c1", f, TRUE)
    \/ call[2] = "none" /\ call[1] = "fetch" /\ pc[1] = "idle" /\ Start(2, "c1", FALSE, TRUE)
    \/ \E r \in Clients, o \in LockOutcomes : FlowFinish(r, o)
    \/ \E r \in Clients :
         \/ CacheCheck(r) \/ CacheRemove(r) \/ GetLock(r) \/ PostLockCheck(r)
         \/ FlowStart(r) \/ Insert(r) \/ Return(r)
         \/ BreakerStep(r)

RefreshSpec == Init /\ [][RefreshNext]_vars

\* ------------------------------------- direct calls of fetch_audit_html
\* One caller that asks for the report of a job: the read request goes to
\* read_url(base_url, job_id), and the response, if there is one, comes
\* from that URL or from one the request was redirected to.
CallFetchAuditHtml(r, base_url, job_id, response, text_ok) ==
    /\ pc[r] = "idle"
    /\ response.sent => response.url \in {read_url(base_url, job_id), LoginUrl, ShibUrl}
    /\ call' = [call EXCEPT ![r] = "fetch_audit_html"]
    /\ args' = [args EXCEPT ![r] = [job_id |-> job_id, url |-> read_url(base_url, job_id),
                                    response |-> response, text_ok |-> text_ok]]
    /\ ret' = [ret EXCEPT ![r] = fetch_audit_html(response, text_ok)]
    /\ UNCHANGED <<now, flow, cacheVars, breakerVars, lockVars, pc, executed, ghostVars>>

ReadResponses ==
    {NoResponse} \cup
    {[sent |-> TRUE, url |-> u, status |-> st] :
        u \in ReadUrls \cup {LoginUrl, ShibUrl}, st \in {200, 302, 500}}

ReadNext ==
    \E base_url \in {DARS_BASE_URL, PortBaseUrl}, job_id \in JobIds,
       response \in ReadResponses, text_ok \in BOOLEAN :
        CallFetchAuditHtml(1, base_url, job_id, response, text_ok)

ReadSpec == Init /\ [][ReadNext]_vars

\* ------------------------- invalidate_cache while an execution is in flight
\* Client 1 asks once for the audit of a session; while its execution of the
\* protocol is in flight, task 3 invalidates the cache of that session; after
\* invalidate_cache has returned, client 2 asks once with force_refresh=false.
\* (Two failed calls do not open the breaker for a third: is_open ends with
\* the load of the count.)
StaleNext ==
    \/ Tick
    \/ \E f \in BOOLEAN : call[1] = "none" /\ Start(1, "c1", f, FALSE)
    \/ pc[1] = "in_flow" /\ call[3] = "none" /\ InvalidateCache(3, "c1")
    \/ call[3] = "invalidate_cache" /\ call[2] = "none" /\ Start(2, "c1", FALSE, FALSE)
    \/ \E r \in Clients, o \in LockOutcomes : FlowFinish(r, o)
    \/ \E r \in Clients :
         \/ IsOpenLoad(r) \/ FetchStep(r)
         \/ RecordSuccess(r) \/ RecordFailureAdd(r) \/ RecordFailureStamp(r)

StaleSpec == Init /\ [][StaleNext]_vars

\* =========================================================== properties

\* --- C1 --------------------------------------------------------------
\* the callers that have called get_or_create_audit, and what came of it
Called == {r \in Reqs : call[r] = "fetch"}

AllReturnedOk == Called # {} /\ \A r \in Called : pc[r] = "idle" /\ ret[r].tag = "Ok"

ExactlyOneFlow ==
    /\ Cardinality({r \in Called : executed[r]}) = 1
    /\ \A r, q \in Called : ret[r] = ret[q]

\* C1, as stated: N concurrent get_or_create_audit calls for one SessionKey
\* with force_refresh = false, from the empty cache and the closed breaker
\* against an upstream that succeeds, make exactly one upstream execution
\* and all return the same audit.
C1_OneExecution == AllReturnedOk => ExactlyOneFlow

\* C1, amended: the same, provided the last caller has returned before one
\* TTL has passed since the first call, so that the entry of the executing
\* call has not expired when the others look it up.
C1_OneExecutionWithinTtl == (AllReturnedOk /\ now < default_ttl) => ExactlyOneFlow

\* all NumReqs callers have returned within the TTL, one of them executed
C1_AllServedByOne ==
    /\ Called = Reqs
    /\ AllReturnedOk
    /\ now < default_ttl
    /\ Cardinality({r \in Reqs : executed[r]}) = 1

\* --- C2 --------------------------------------------------------------
\* between issuing the create request and the return of the flow
InFlow(r) == call[r] = "fetch" /\ pc[r] = "in_flow"

\* C2: at no time are two requests with the same SessionKey both inside the
\* create -> discover -> poll -> fetch -> parse flow.
C2_OneFlowPerKey ==
    \A r, q \in Reqs : (r # q /\ InFlow(r) /\ InFlow(q)) => Key(r) # Key(q)

\* one request is inside the flow while another one for the same key, which
\* will execute as well (force_refresh), waits for the session's lock
C2_SecondWaits ==
    \E r, q \in Reqs :
        /\ r # q /\ InFlow(r)
        /\ call[q] = "fetch" /\ pc[q] = "lock_await" /\ args[q].force_refresh
        /\ Key(q) = Key(r)

\* --- C3 --------------------------------------------------------------
\* C3: once a request for a key has inserted its result, every other
\* force_refresh = false request for that key that was queued behind the
\* key's lock returns the cached result and executes nothing upstream, as
\* long as the TTL has not elapsed (nothing invalidates or clears here).
C3_QueuedServedFromCache ==
    [][\A q \in Reqs :
          ( /\ call[q] = "fetch" /\ pc[q] = "lock_await" /\ pc'[q] # "lock_await"
            /\ ~args[q].force_refresh
            /\ offered[q] # NoEntry
            /\ elapsed(offered[q].cached_at) < offered[q].ttl )
          => ( /\ pc'[q] = "idle"
               /\ ret'[q] = Ok(offered[q].result)
               /\ ~executed'[q] )]_vars

\* --- C4 --------------------------------------------------------------
\* C4: a request waits for its session's lock only behind a request with
\* the same SessionKey; whatever requests for other keys hold or wait for,
\* it has its lock as soon as no request of its own key is ahead of it.
C4_WaitsOnlyForOwnKey ==
    \A r \in Reqs, l \in LockIds :
        (call[r] = "fetch" /\ pc[r] \in {"lock_await", "post_lock_remove", "flow",
                                         "in_flow", "record_success", "insert", "return"}
         /\ r \in Waiting(l))
        => Key(Head(lock_queue[l])) = Key(r)

\* two requests with different SessionKeys are inside the flow together
C4_BothInFlow ==
    \E r, q \in Reqs : InFlow(r) /\ InFlow(q) /\ Key(r) # Key(q)

\* --- C5 --------------------------------------------------------------
\* a direct AuditCache::get has returned to task r
GetReturned(r) == call[r] = "get" /\ pc[r] = "idle"

\* C5: get(key) returns the entry's result iff the entry is there and
\* now - t < d, for t its insertion time and d its TTL; a get at
\* now - t >= d returns None and removes the entry, so that len() is one
\* less.
C5_GetRespectsTtl ==
    \A r \in Reqs : GetReturned(r) =>
        LET e == seen[r].entry
            k == from_cookie(args[r].cookies) IN
        IF e = NoEntry
          THEN ret[r] = NoneVal /\ len = seen[r].len
          ELSE IF seen[r].at - e.cached_at < e.ttl
                 THEN ret[r] = Some(e.result) /\ len = seen[r].len /\ entries[k] = e
                 ELSE ret[r] = NoneVal /\ k \notin DOMAIN entries /\ len = seen[r].len - 1

\* a get found an entry whose TTL had elapsed
C5_Evicted ==
    \E r \in Reqs :
        /\ GetReturned(r) /\ ret[r] = NoneVal
        /\ seen[r].entry # NoEntry
        /\ seen[r].at - seen[r].entry.cached_at >= seen[r].entry.ttl

\* --- C6 --------------------------------------------------------------
\* a direct CircuitBreaker::is_open has returned to task r
IsOpenReturned(r) == call[r] = "is_open" /\ pc[r] = "idle"

\* C6: with T = threshold, after k record_failure calls in a row, each made
\* within the recovery window of the one before and none after a
\* record_success, is_open() (within the window) is false for k < T and
\* true for k >= T; after record_success it is false again.
C6_OpensAtThreshold ==
    (IsOpenReturned(1) /\ streak >= 0) => ret[1] = Bool(streak >= threshold)

\* is_open() has answered true right at the threshold
C6_OpenAtThreshold ==
    IsOpenReturned(1) /\ streak = threshold /\ ret[1] = Bool(TRUE)

\* --- C7 --------------------------------------------------------------
\* C7: is_open() is true iff the count of failures is at least the
\* threshold and less than recovery_time has elapsed since the last failure
\* (the breaker is closed from the instant the elapsed time equals
\* recovery_time).
C7_OpenIffWithinWindow ==
    IsOpenReturned(1) =>
        ret[1] = Bool(/\ seen[1].count >= threshold
                      /\ seen[1].last # None
                      /\ seen[1].at - seen[1].last < recovery_time)

\* --- C8 --------------------------------------------------------------
\* C8: under every interleaving of concurrent record_failure,
\* record_success and is_open calls, an is_open() call made once the
\* recovery window has elapsed since the last failure, and with no failure
\* recorded since, returns false.
C8_HealsUnderConcurrency ==
    \A r \in Reqs : (IsOpenReturned(r) /\ healed[r]) => ret[r] = Bool(FALSE)

\* --- C9 --------------------------------------------------------------
\* a step of the call of task r that ends or follows the flow with an error
FailingStep(r) ==
    /\ call[r] = "fetch"
    /\ pc[r] \in {"in_flow", "record_failure", "record_failure_stamp", "return"}
    /\ pc'[r] # pc[r]
    /\ ret'[r].tag = "Err"

\* C9: a get_or_create_audit call that fails with Network, PollTimeout or
\* UnexpectedResponse adds exactly one to the failure count; one that fails
\* with SessionExpired, NoJobFound, JobFailed or ParseError leaves it alone.
C9_FailureAccounting ==
    [][\A r \in Reqs : FailingStep(r) =>
          IF ret'[r].val \in {"Network", "PollTimeout", "UnexpectedResponse"}
            THEN \/ pc[r] = "in_flow" /\ pc'[r] = "record_failure"
                    /\ UNCHANGED breakerVars
                 \/ pc[r] = "record_failure" /\ pc'[r] = "record_failure_stamp"
                    /\ failure_count' = failure_count + 1
                 \/ pc[r] = "record_failure_stamp" /\ pc'[r] = "return"
                    /\ failure_count' = failure_count
                 \/ pc[r] = "return" /\ pc'[r] = "idle"
                    /\ UNCHANGED breakerVars
            ELSE /\ ret'[r].val \in {"SessionExpired", "NoJobFound", "JobFailed",
                                     "ParseError", "UrlError"}
                 /\ \/ pc[r] = "in_flow" /\ pc'[r] = "return"
                    \/ pc[r] = "return" /\ pc'[r] = "idle"
                 /\ UNCHANGED breakerVars]_vars

\* a call that failed with a retryable error has counted its failure
C9_FailureCounted ==
    \E r \in Reqs :
        /\ call[r] = "fetch" /\ pc[r] = "record_failure_stamp"
        /\ ret[r] = Err("PollTimeout")
        /\ failure_count >= 1

\* --- C10 -------------------------------------------------------------
\* a call of get_or_create_audit has returned to task r
FetchReturned(r) == call[r] = "fetch" /\ pc[r] = "idle"

\* C10: a get_or_create_audit call that succeeds sets the failure count to
\* 0 and stores its result under the credential's SessionKey; a later call
\* with the same credential and force_refresh = false, made with the
\* breaker closed and before the TTL elapses, returns the stored result and
\* executes nothing upstream.
C10_SuccessStoresAndServes ==
    /\ ( call[1] = "fetch" /\ pc[1] = "return" /\ ret[1].tag = "Ok" /\ executed[1] )
       => ( /\ failure_count = 0
            /\ Key(1) \in DOMAIN entries
            /\ entries[Key(1)].result = ret[1].val
            /\ entries[Key(1)].ttl = default_ttl )
    /\ ( /\ FetchReturned(1) /\ ~args[1].force_refresh
         /\ seen[1].count < threshold
         /\ seen[1].entry # NoEntry
         /\ elapsed(seen[1].entry.cached_at) < seen[1].entry.ttl )
       => ( ret[1] = Ok(seen[1].entry.result) /\ ~executed[1] )

\* a later call was served the stored result without an upstream execution
C10_ServedFromCache ==
    /\ FetchReturned(1) /\ ~args[1].force_refresh
    /\ seen[1].entry # NoEntry
    /\ ret[1] = Ok(seen[1].entry.result)
    /\ ~executed[1]
    /\ failure_count = 0

\* --- C11 -------------------------------------------------------------
\* C11: get_or_create_audit consults the cache before the breaker: a
\* force_refresh = false call whose key has an unexpired entry returns the
\* cached result even while the breaker is open; CircuitBreakerOpen comes
\* only after a cache miss.
C11_CacheBeforeBreaker ==
    ( /\ FetchReturned(1) /\ ~args[1].force_refresh
      /\ seen[1].entry # NoEntry
      /\ elapsed(seen[1].entry.cached_at) < seen[1].entry.ttl )
    => ( ret[1] = Ok(seen[1].entry.result) /\ ~executed[1] )

\* --- C12 -------------------------------------------------------------
\* the task is in no lock's queue: it neither holds nor awaits a lock
Unqueued(r) == \A l \in LockIds : r \notin Waiting(l)

\* C12: a get_or_create_audit call whose breaker check finds the breaker
\* open (count at or over the threshold, last failure inside the recovery
\* window) returns CircuitBreakerOpen, and up to that return it executes
\* nothing upstream, takes no session lock and changes neither the cache
\* nor the breaker.
C12_OpenBreakerRejects ==
    [][\A r \in Reqs :
          (call[r] = "fetch" /\ pc[r] \in {"is_open", "is_open_lock"} /\ pc'[r] # pc[r])
          => /\ ( /\ pc[r] = "is_open_lock"
                  /\ last_failure # None
                  /\ now - last_failure < recovery_time )
                => ( pc'[r] = "idle" /\ ret'[r] = Err("CircuitBreakerOpen") )
             /\ ( pc'[r] = "is_open_lock" \/ ret'[r] = Err("CircuitBreakerOpen") )
                => ( /\ UNCHANGED <<entries, failure_count, last_failure,
                                    session_locks, lock_queue>>
                     /\ ~executed'[r]
                     /\ Unqueued(r) )]_vars

\* a call was rejected by the open breaker
C12_Rejected ==
    \E r \in Reqs :
        /\ FetchReturned(r) /\ ret[r] = Err("CircuitBreakerOpen")
        /\ ~executed[r] /\ Unqueued(r)
        /\ failure_count >= threshold

\* --- C13 -------------------------------------------------------------
\* the flow has come to a ready job
JobReady == flow.ready_job_id # NoJobId

\* C13: a job that is not Complete (nor Error) on its first k discoveries
\* and Complete on discovery k+1, with k <= max_poll_attempts and the
\* elapsed time within max_poll_timeout, is ready after exactly k+1
\* discovery calls and k backoff sleeps, polling being skipped for k = 0;
\* within those limits the poll does not time out.
C13_PollCount ==
    /\ JobReady =>
         /\ flow.job.status.kind = "Complete"
         /\ flow.sleeps = flow.discoveries - 1
         /\ flow.attempts = flow.sleeps
         /\ flow.discoveries = 1 => flow.start = None
    /\ (flow.pc = "done" /\ flow.result = Err("PollTimeout")) =>
         /\ flow.job.status.kind # "Complete"
         /\ \/ flow.attempts > max_poll_attempts
            \/ now - flow.start > max_poll_timeout

\* the job was Complete on the last discovery the limits allow
C13_ReadyAtLastAttempt ==
    /\ JobReady /\ flow.pc = "read"
    /\ flow.discoveries = max_poll_attempts + 1
    /\ flow.sleeps = max_poll_attempts

\* --- C14 -------------------------------------------------------------
\* C14: read.html is requested only with the job id of the most recent
\* discovery, and only when that discovery's status is Complete; a
\* Processing or Unknown job (Unknown is what strategies 2-4 give) leads to
\* no request for the result page, only to more polling.
C14_ReadOnlyWhenComplete ==
    /\ flow.requested # NoJobId =>
         (flow.requested = flow.job.job_id /\ flow.job.status.kind = "Complete")
    /\ flow.job.status.kind \in {"Processing", "Unknown"} =>
         /\ flow.requested = NoJobId
         /\ flow.pc \in {"poll", "sleep", "done"}
         /\ flow.pc = "done" => flow.result.tag = "Err"

\* the result page was requested for the job found by a later discovery
C14_ReadAfterPolling ==
    flow.requested = OtherJobId /\ flow.discoveries >= 2 /\ flow.pc = "parse"

\* --- C15 -------------------------------------------------------------
\* poll_until_ready is running
Polling == pc[1] = "in_flow" /\ flow.pc \in {"poll", "sleep"}

\* C15: poll_until_ready always terminates; it fetches the list page again
\* at most max_poll_attempts times, sleeps only while the elapsed time has
\* not exceeded max_poll_timeout, and with a job that never gets Complete
\* or Error it ends in PollTimeout, not in JobFailed.
C15_PollTerminates ==
    /\ [](/\ flow.discoveries <= max_poll_attempts + 1
          /\ flow.sleeps <= max_poll_attempts)
    /\ [][/\ (flow.pc = "poll" /\ flow'.pc = "sleep") =>
                /\ now - flow.start <= max_poll_timeout
                /\ flow'.attempts <= max_poll_attempts
          /\ (/\ flow.pc = "poll" /\ flow'.pc = "done"
              /\ flow.job.status.kind \in {"Processing", "Unknown"}) =>
                flow'.result = Err("PollTimeout")]_vars
    /\ (Polling ~> ~Polling)

\* the poll ran out of attempts
C15_OutOfAttempts ==
    /\ flow.pc = "done" /\ flow.result = Err("PollTimeout")
    /\ flow.attempts = max_poll_attempts + 1
    /\ flow.discoveries = max_poll_attempts + 1

\* --- C16 -------------------------------------------------------------
\* the responses whose resolved URL has an SSO/login indicator in it
SsoResponses == {response \in Responses : response.sent /\ response.url \in SsoUrls}

\* the call is on its way out of a flow that ended in SessionExpired
SessionExpiredCall ==
    /\ call[1] = "fetch" /\ pc[1] \in {"in_flow", "return"}
    /\ flow.pc = "done" /\ flow.result = Err("SessionExpired")

\* C16: in each protocol step that takes a response (create, list, read), a
\* response whose resolved URL has an SSO/login indicator in it ends the
\* flow in SessionExpired whatever its status code is, and
\* get_or_create_audit returns SessionExpired with nothing cached and the
\* failure count of the breaker as it was.
C16_SsoMeansSessionExpired ==
    [][/\ \A response \in SsoResponses :
            ( \/ \E base_url \in BaseUrls, location \in Locations :
                    FlowCreate(base_url, response, location)
              \/ \E text_ok \in BOOLEAN, page \in ListPages :
                    \/ FlowDiscover(response, text_ok, page)
                    \/ PollRefetch(response, text_ok, page)
              \/ \E text_ok \in BOOLEAN : FlowRead(response, text_ok) )
            => (flow'.pc = "done" /\ flow'.result = Err("SessionExpired"))
       /\ SessionExpiredCall =>
            /\ entries' = entries
            /\ failure_count' = failure_count
            /\ last_failure' = last_failure
            /\ pc'[1] \in {"in_flow", "return", "idle"}
            /\ pc'[1] = "idle" => ret'[1] = Err("SessionExpired")]_vars

\* SessionExpired came back from a call that got as far as the result page
C16_ExpiredAtRead ==
    /\ FetchReturned(1) /\ ret[1] = Err("SessionExpired")
    /\ flow.requested # NoJobId /\ flow.result = Err("SessionExpired")

\* --- C17 -------------------------------------------------------------
\* C17: every error get_or_create_audit returns is one of Network,
\* SessionExpired, UnexpectedResponse, NoJobFound, JobFailed, PollTimeout,
\* ParseError, CircuitBreakerOpen and OperationInProgress.
C17_OnlyListedErrors ==
    (FetchReturned(1) /\ ret[1].tag = "Err") =>
        ret[1].val \in {"Network", "SessionExpired", "UnexpectedResponse",
                        "NoJobFound", "JobFailed", "PollTimeout", "ParseError",
                        "CircuitBreakerOpen", "OperationInProgress"}

\* --- C18 -------------------------------------------------------------
\* C18: is_retryable() is true exactly for Network, PollTimeout and
\* UnexpectedResponse, needs_reauth() is true exactly for SessionExpired
\* and NoSession, and no variant gets true from both.
C18_Classification ==
    /\ \A r \in Reqs :
         /\ call[r] = "is_retryable" =>
              ret[r] = Bool(args[r].error \in {"Network", "PollTimeout",
                                               "UnexpectedResponse"})
         /\ call[r] = "needs_reauth" =>
              ret[r] = Bool(args[r].error \in {"SessionExpired", "NoSession"})
    /\ \A r, q \in Reqs :
         (/\ call[r] = "is_retryable" /\ call[q] = "needs_reauth"
          /\ args[r].error = args[q].error)
         => ~(ret[r] = Bool(TRUE) /\ ret[q] = Bool(TRUE))

\* one caller was told that PollTimeout is retryable, the other that
\* SessionExpired needs a new login
C18_BothAnswers ==
    /\ call[1] = "is_retryable" /\ args[1].error = "PollTimeout"
    /\ ret[1] = Bool(TRUE)
    /\ call[2] = "needs_reauth" /\ args[2].error = "SessionExpired"
    /\ ret[2] = Bool(TRUE)

\* --- C19 -------------------------------------------------------------
\* C19: extract_job_id_from_href returns the value of the id parameter
\* with %21 decoded to '!': an href with id=JobQueueRun%21%21%21%21ABC123
\* and one with id=JobQueueRun!!!!ABC123 both give JobQueueRun!!!!ABC123,
\* and so they do with a ;jsessionid=... segment between the path and the
\* query.
C19_IdParameterDecoded ==
    \A r \in Reqs :
        (call[r] = "extract_job_id_from_href" /\ args[r].href \in IdHrefs) =>
            (ret[r].tag = "Some" /\ ret[r].val = PlainJobId)

\* the encoded id behind a jsessionid segment and the plain id without one
\* have both been extracted
C19_EncodedAndPlain ==
    /\ call[1] = "extract_job_id_from_href"
    /\ args[1].href = ReadPath \o SessionSegment \o IdQuery \o EncodedJobId
    /\ ret[1].tag = "Some"
    /\ call[2] = "extract_job_id_from_href"
    /\ args[2].href = ReadPath \o IdQuery \o PlainJobId
    /\ ret[2].tag = "Some"

\* --- C20 -------------------------------------------------------------
\* C20: invalidate_cache(credential) removes the entry of the credential's
\* SessionKey, so that a get for that key made right afterwards returns
\* None, and leaves the entries of all other sessions, the breaker and the
\* lock registry as they were.
C20_InvalidateFrame ==
    [][/\ \A c \in Cookies :
            (/\ pc[1] = "idle" /\ pc'[1] = "idle" /\ now' = now
             /\ call'[1] = "invalidate_cache" /\ args'[1].cookies = c) =>
                LET key == from_cookie(c) IN
                  /\ key \notin DOMAIN entries'
                  /\ Lookup(key)' = "absent"
                  /\ \A k \in Keys \ {key} :
                        /\ (k \in DOMAIN entries') = (k \in DOMAIN entries)
                        /\ k \in DOMAIN entries => entries'[k] = entries[k]
                  /\ failure_count' = failure_count /\ last_failure' = last_failure
                  /\ session_locks' = session_locks /\ lock_queue' = lock_queue
       /\ (pc[1] = "get" /\ pc'[1] # "get" /\ Key(1) \notin DOMAIN entries) =>
            (pc'[1] = "idle" /\ ret'[1] = NoneVal /\ entries' = entries)]_vars

\* the entry of one session was invalidated while the other session's
\* entry was there, the breaker had counted failures and both sessions had
\* their locks
C20_InvalidatedOneOfTwo ==
    /\ pc[1] = "idle" /\ call[1] = "invalidate_cache"
    /\ DOMAIN entries = Keys \ {from_cookie(args[1].cookies)}
    /\ failure_count > 0
    /\ DOMAIN session_locks = Keys

\* --- C21 -------------------------------------------------------------
\* C21: audit_error_to_response maps SessionExpired and NoSession to 401,
\* CircuitBreakerOpen to 503, PollTimeout to 504, CookieFetchError to 502
\* and every other variant to 500.
C21_StatusCodes ==
    \A r \in Reqs :
        call[r] = "audit_error_to_response" =>
            LET e == args[r].error
                status == ret[r].val IN
              /\ ret[r].tag = "Response"
              /\ e \in {"SessionExpired", "NoSession"} => status = 401
              /\ e = "CircuitBreakerOpen" => status = 503
              /\ e = "PollTimeout" => status = 504
              /\ e = "CookieFetchError" => status = 502
              /\ e \in {"Network", "UnexpectedResponse", "NoJobFound", "JobFailed",
                        "ParseError", "UrlError", "OperationInProgress"} => status = 500

\* a timeout and a failed cookie fetch have been answered
C21_TimeoutAndCookie ==
    /\ call[1] = "audit_error_to_response" /\ args[1].error = "PollTimeout"
    /\ ret[1].val = 504
    /\ call[2] = "audit_error_to_response" /\ args[2].error = "CookieFetchError"
    /\ ret[2].val = 502

\* --- C22 -------------------------------------------------------------
\* a get_or_create_audit call with force_refresh = true
Forced(r) == call[r] = "fetch" /\ args[r].force_refresh

\* C22: with force_refresh = true and the breaker closed,
\* get_or_create_audit makes neither cache lookup, always executes the
\* upstream protocol, holding the session lock, and on success overwrites
\* the entry of the key with the new result and a TTL that begins at the
\* time of the insertion.
C22_ForceRefresh ==
    /\ [](\A r \in Reqs :
            (Forced(r) /\ pc[r] \in {"flow", "in_flow", "record_success", "insert"})
                => HasLock(r))
    /\ [][\A r \in Reqs : Forced(r) =>
            /\ (pc[r] = "cache_check" /\ pc'[r] # pc[r]) =>
                   (pc'[r] = "get_lock" /\ entries' = entries /\ ret'[r] = ret[r])
            /\ (pc[r] = "lock_await" /\ pc'[r] # pc[r]) =>
                   (pc'[r] = "flow" /\ entries' = entries /\ ret'[r] = ret[r])
            /\ (pc[r] # "idle" /\ pc'[r] = "idle") =>
                   (executed[r] \/ ret'[r] = Err("CircuitBreakerOpen"))
            /\ (pc[r] = "insert" /\ pc'[r] # pc[r]) =>
                   /\ pc'[r] = "return" /\ ret[r].tag = "Ok" /\ ret'[r] = ret[r]
                   /\ Key(r) \in DOMAIN entries'
                   /\ entries'[Key(r)] =
                        [result |-> ret[r].val, cached_at |-> now, ttl |-> default_ttl]
                   /\ Fresh(entries[Key(r)])'
                   /\ \A k \in DOMAIN entries \ {Key(r)} : entries'[k] = entries[k]
         ]_vars

\* a forced call has replaced an entry, unexpired when the call was made
\* and holding another result, by its own result
C22_Overwritten ==
    /\ Forced(1) /\ pc[1] = "return" /\ ret[1].tag = "Ok"
    /\ seen[1].entry # NoEntry /\ seen[1].entry.result # ret[1].val
    /\ seen[1].at - seen[1].entry.cached_at < seen[1].entry.ttl
    /\ seen[1].entry.cached_at < now
    /\ entries[Key(1)] = [result |-> ret[1].val, cached_at |-> now, ttl |-> default_ttl]

\* --- C23 -------------------------------------------------------------
\* C23: each iteration of the poll looks at the current snapshot in the
\* order Complete, Error, limits: a Complete snapshot gives its job id even
\* with the attempts used up or the time over, an Error snapshot gives
\* JobFailed and never PollTimeout, and PollTimeout comes only with a
\* Processing or Unknown snapshot.
C23_CheckOrder ==
    [][(pc[1] = "in_flow" /\ flow.pc = "poll" /\ flow'.pc # "poll") =>
          /\ flow.job.status.kind = "Complete" =>
                /\ flow'.pc = "read"
                /\ flow'.ready_job_id = flow.job.job_id
          /\ flow.job.status.kind = "Error" =>
                (flow'.pc = "done" /\ flow'.result = Err("JobFailed"))
          /\ flow'.result = Err("PollTimeout") =>
                (flow'.pc = "done" /\ flow.job.status.kind \in {"Processing", "Unknown"})
      ]_vars

\* a snapshot found Complete with all attempts used and the time over
C23_ReadyBeyondLimits ==
    /\ pc[1] = "in_flow" /\ flow.pc = "read" /\ flow.job.status.kind = "Complete"
    /\ flow.attempts = max_poll_attempts
    /\ now - flow.start > max_poll_timeout

\* --- C24 -------------------------------------------------------------
\* the requests of one execution in their order: create, then list once or
\* more, then read, then the parse
InOrder(log) ==
    \A i \in 1..Len(log) :
        IF i = 1 THEN log[i] = "create"
        ELSE <<log[i - 1], log[i]>> \in {<<"create", "list">>, <<"list", "list">>,
                                         <<"list", "read">>, <<"read", "parse">>}

\* C24: within one execution of the protocol the requests go out in the
\* order create, list (once or more), read, and then the parse; there is
\* exactly one create request, and once a step has failed the execution
\* has ended and sends nothing more.
C24_RequestOrder ==
    /\ [](/\ InOrder(flow.log)
          /\ Cardinality({i \in 1..Len(flow.log) : flow.log[i] = "create"}) <= 1
          /\ flow.pc # "create" => flow.log # <<>> /\ flow.log[1] = "create"
          /\ flow.pc = "discover" => flow.log = <<"create">>
          /\ flow.pc \in {"poll", "sleep", "read"} => flow.log[Len(flow.log)] = "list"
          /\ flow.pc = "parse" => flow.log[Len(flow.log)] = "read"
          /\ flow.result.tag = "Err" => flow.pc = "done"
          /\ flow.result.tag = "Ok" => flow.log[Len(flow.log)] = "parse")
    /\ [][(pc[1] = "in_flow" /\ flow.pc = "done") => flow' = flow]_vars

\* an execution that polled once and came to its end
C24_WholeProtocol ==
    /\ flow.pc = "done" /\ flow.result.tag = "Ok"
    /\ flow.log = <<"create", "list", "list", "read", "parse">>

\* ---------------------------------------------------------------- C25
CreateCalled == call[1] = "trigger_create"

CreateAnswered ==
    /\ CreateCalled
    /\ args[1].response.sent
    /\ check_session_valid(args[1].response).tag = "Ok"
    /\ UrlParse(args[1].base_url).tag = "Ok"

\* C25: when the create endpoint answers (no SSO page) with a redirect
\* status, any 3xx, that carries a Location header, trigger_create returns a
\* list URL; when it answers 200 it returns
\* {base_url}/audit/list.html?autoPoll=true; for every other status and for
\* a redirect without a Location header it returns UnexpectedResponse.
C25_RedirectOrOk ==
    CreateAnswered =>
        LET status == args[1].response.status
            redirect == status \in 300..399
        IN  /\ redirect /\ args[1].location.tag = "Some" => ret[1].tag = "Ok"
            /\ status = 200 =>
                 ret[1] = Ok(args[1].base_url \o LIST_PATH \o AutoPoll)
            /\ \/ ~redirect /\ status # 200
               \/ redirect /\ args[1].location.tag = "None"
               => ret[1] = Err("UnexpectedResponse")

\* ---------------------------------------------------------------- C26
\* the scheme and the authority (host and port) of a URL, with "://" between
SchemeAndAuthority(url) ==
    LET start == Find(url, <<":", "/", "/">>, 1) + 3 IN
      IF \E i \in start..Len(url) : url[i] = "/"
        THEN SubSeq(url, 1, (CHOOSE i \in start..Len(url) :
                               url[i] = "/" /\ \A j \in start..(i - 1) : url[j] # "/") - 1)
        ELSE url

\* a URL up to and including the last "/" of it
Directory(url) ==
    SubSeq(url, 1, CHOOSE i \in 1..Len(url) :
                     url[i] = "/" /\ \A j \in (i + 1)..Len(url) : url[j] # "/")

\* what a client that follows a redirect from `from` to `location` requests
Followed(from, location) ==
    IF starts_with(location, <<"h", "t", "t", "p">>) THEN location
    ELSE IF starts_with(location, <<"/">>) THEN SchemeAndAuthority(from) \o location
    ELSE Directory(from) \o location

\* C26: for a redirect whose Location is absolute, host-relative or
\* path-relative, trigger_create returns the URL that a client following the
\* redirect from the create URL would reach: the Location itself, the
\* Location after the scheme and authority (host and port) of the base URL,
\* or the Location in the directory of the create page.
C26_FollowsRedirect ==
    /\ CreateAnswered
    /\ args[1].response.status \in {301, 302, 303}
    /\ args[1].location.tag = "Some"
    => ret[1] = Ok(Followed(args[1].base_url \o CREATE_PATH, args[1].location.val))

\* ---------------------------------------------------------------- C27
DelayCalled(r) == call[r] = "calculate_poll_delay" /\ args[r].attempt >= 1

\* min(base * 2^min(attempt-1, 5), 10000 ms)
CappedDelay(r) ==
    LET exponent == IF args[r].attempt - 1 < 5 THEN args[r].attempt - 1 ELSE 5
        exponential == args[r].base * 2 ^ exponent
    IN  IF exponential < 10000 THEN exponential ELSE 10000

\* C27: calculate_poll_delay(attempt) returns capped + jitter with
\* capped = min(base * 2^min(attempt-1, 5), 10000 ms) and
\* 0 <= jitter <= capped/5; capped never exceeds 10000 ms and does not
\* decrease when the attempt grows; with base = 500 ms the delay of attempt
\* 1 is below that of attempt 2 and that below the delay of attempt 3,
\* whatever the jitter of the two calls.
C27_PollDelay ==
    \A r \in Clients : DelayCalled(r) =>
        /\ ret[r] - CappedDelay(r) \in 0..(CappedDelay(r) \div 5)
        /\ CappedDelay(r) <= 10000
        /\ \A q \in Clients :
             /\ DelayCalled(q)
             /\ args[q].base = args[r].base
             /\ args[r].attempt < args[q].attempt
             => /\ CappedDelay(r) <= CappedDelay(q)
                /\ args[r].base = 500 /\ args[q].attempt <= 3 => ret[r] < ret[q]

\* attempt 1 with the largest jitter and attempt 2 with none, base 500 ms
C27_LargestBeforeSmallest ==
    /\ DelayCalled(1) /\ DelayCalled(2)
    /\ args[1] = [base |-> 500, attempt |-> 1] /\ ret[1] = 600
    /\ args[2] = [base |-> 500, attempt |-> 2] /\ ret[2] = 1000

\* ---------------------------------------------------------------- C28
ParseCalled == call[1] = "parse_newest_job"

\* what each strategy finds in the document
Candidates(document) ==
    <<Strategy1(document), Strategy2(document), Strategy3(document), Strategy4(document)>>

\* the first strategy that finds a job, 0 if none does
FirstStrategy(document) ==
    IF \A n \in 1..4 : Candidates(document)[n] = <<>> THEN 0
    ELSE CHOOSE n \in 1..4 :
           /\ Candidates(document)[n] # <<>>
           /\ \A m \in 1..(n - 1) : Candidates(document)[m] = <<>>

\* C28: parse_newest_job returns the first candidate of the first of the
\* four strategies that finds any; its status is read off the row for
\* strategy 1 and is Unknown("fallback extraction"), Unknown("pattern
\* match"), Unknown("text extraction") for strategies 2, 3 and 4; the
\* result is NoJobFound exactly when no strategy finds a candidate.
C28_FirstStrategyWins ==
    ParseCalled =>
        LET document == args[1].html
            n == FirstStrategy(document)
        IN  /\ ret[1] = Err("NoJobFound") <=> n = 0
            /\ n # 0 => ret[1] = Ok(Head(Candidates(document)[n]))
            /\ n = 1 => \E i \in 1..Len(document) :
                          /\ IsRow(document[i])
                          /\ ret[1].val.status = extract_status_from_row(document[i])
                          /\ \E j \in 1..Len(document[i].links) :
                               ret[1].val.raw_href = Some(document[i].links[j])
            /\ n = 2 => ret[1].val.status = Unknown(<<"f", "a", "l", "l", "b", "a", "c", "k", " ", "e", "x", "t", "r", "a", "c", "t", "i", "o", "n">>)
            /\ n = 3 => ret[1].val.status = Unknown(<<"p", "a", "t", "t", "e", "r", "n", " ", "m", "a", "t", "c", "h">>)
            /\ n = 4 => ret[1].val.status = Unknown(<<"t", "e", "x", "t", " ", "e", "x", "t", "r", "a", "c", "t", "i", "o", "n">>)

\* no row gives a job, a read link does, and the pattern is there as well
C28_FallbackBeforePattern ==
    /\ ParseCalled
    /\ Rows(args[1].html) # <<>>
    /\ Strategy1(args[1].html) = <<>>
    /\ Strategy2(args[1].html) # <<>>
    /\ Head(Strategy3(args[1].html)).job_id # Head(Strategy2(args[1].html)).job_id
    /\ ret[1] = Ok(Head(Strategy2(args[1].html)))

\* ---------------------------------------------------------------- C29
\* the sequences that urlencoding_decode replaces
PercentCodes ==
    { <<"%", "2", "1">>, <<"%", "2", "0">>, <<"%", "2", "F">>, <<"%", "3", "A">>, <<"%", "3", "D">>, <<"%", "2", "6">>, <<"%", "3", "F">> }

\* C29: a job id that parse_newest_job returns holds none of the sequences
\* %21, %20, %2F, %3A, %3D, %26, %3F, whichever strategy found it.
C29_JobIdDecoded ==
    ParseCalled /\ ret[1].tag = "Ok" =>
        \A code \in PercentCodes : ~contains(ret[1].val.job_id, code)

\* ---------------------------------------------------------------- C30
StatusCalled == call[1] = "extract_status_from_row"

\* the rules in their order: where to look, for which words, and the
\* status that follows
StatusRules ==
    << [in |-> "text", words |-> {<<"c", "o", "m", "p", "l", "e", "t", "e">>, <<"r", "e", "a", "d", "y">>, <<"f", "i", "n", "i", "s", "h", "e", "d">>}, kind |-> "Complete"],
       [in |-> "text", words |-> {<<"p", "r", "o", "c", "e", "s", "s", "i", "n", "g">>, <<"r", "u", "n", "n", "i", "n", "g">>, <<"p", "e", "n", "d", "i", "n", "g">>, <<"q", "u", "e", "u", "e", "d">>, <<"i", "n", " ", "p", "r", "o", "g", "r", "e", "s", "s">>},
        kind |-> "Processing"],
       [in |-> "text", words |-> {<<"e", "r", "r", "o", "r">>, <<"f", "a", "i", "l", "e", "d">>, <<"f", "a", "i", "l", "u", "r", "e">>}, kind |-> "Error"],
       [in |-> "class", words |-> {<<"c", "o", "m", "p", "l", "e", "t", "e">>, <<"s", "u", "c", "c", "e", "s", "s">>}, kind |-> "Complete"],
       [in |-> "class", words |-> {<<"p", "e", "n", "d", "i", "n", "g">>, <<"p", "r", "o", "c", "e", "s", "s", "i", "n", "g">>}, kind |-> "Processing"],
       [in |-> "class", words |-> {<<"e", "r", "r", "o", "r">>, <<"f", "a", "i", "l">>}, kind |-> "Error"] >>

\* rule n matches the row of the call, whatever the case of its letters
RuleMatches(n) ==
    LET where == IF StatusRules[n].in = "text" THEN args[1].text ELSE args[1].class IN
      \E word \in StatusRules[n].words, i \in 1..Len(where) :
          /\ i + Len(word) - 1 <= Len(where)
          /\ \A j \in 1..Len(word) : LowerChar(where[i + j - 1]) = word[j]

\* C30: extract_status_from_row gives the status of the first rule that
\* matches, the letters compared without regard to case, in the order text
\* complete/ready/finished -> Complete, text processing/running/pending/
\* queued/in progress -> Processing, text error/failed/failure -> Error,
\* class complete/success -> Complete, class pending/processing ->
\* Processing, class error/fail -> Error; Complete when no rule matches.
C30_FirstRuleWins ==
    StatusCalled =>
        /\ \A n \in 1..6 :
             RuleMatches(n) /\ (\A m \in 1..(n - 1) : ~RuleMatches(m))
             => ret[1].kind = StatusRules[n].kind
        /\ (\A n \in 1..6 : ~RuleMatches(n)) => ret[1] = Complete

\* the text says in progress, in capitals, and the class says complete
C30_TextBeforeClass ==
    /\ StatusCalled
    /\ RuleMatches(2) /\ RuleMatches(4) /\ ~RuleMatches(1)
    /\ args[1].text # to_lowercase(args[1].text)
    /\ ret[1] = Processing

\* ---------------------------------------------------------------- C31
EncodeCalled == call[1] = "encode"

\* the characters that may stand in an encoded string
HexDigit(c) == c \in {"0", "1", "2", "3", "4", "5", "6", "7", "8", "9", "A", "B", "C", "D", "E", "F"}

\* C31: encode leaves A-Z a-z 0-9 - _ . ~ as they are and puts %XX, in
\* uppercase hex, for every other byte (JobQueueRun!!!!ABC becomes
\* JobQueueRun%21%21%21%21ABC); for an id of unreserved characters and '!'
\* urlencoding_decode of the encoded id is the id again.
C31_EncodeRoundTrip ==
    EncodeCalled =>
        LET s == args[1].s
            encoded == ret[1]
        IN  /\ (\A i \in 1..Len(s) : Unreserved(s[i])) => encoded = s
            /\ \A i \in 1..Len(encoded) :
                 \/ Unreserved(encoded[i])
                 \/ /\ encoded[i] = "%" /\ i + 2 <= Len(encoded)
                    /\ HexDigit(encoded[i + 1]) /\ HexDigit(encoded[i + 2])
            /\ Len(encoded) - Len(s) =
                 2 * Cardinality({i \in 1..Len(s) : ~Unreserved(s[i]) /\ s[i] # "U+00E9"})
                 + 5 * Cardinality({i \in 1..Len(s) : s[i] = "U+00E9"})
            /\ s = TestJobId => encoded = <<"J", "o", "b", "Q", "u", "e", "u", "e", "R", "u", "n", "%", "2", "1", "%", "2", "1", "%", "2", "1", "%", "2", "1", "A", "B", "C">>
            /\ (\A i \in 1..Len(s) : Unreserved(s[i]) \/ s[i] = "!")
               => urlencoding_decode(encoded) = s

\* the id of the test was encoded, its four '!' as %21
C31_BangsEncoded ==
    /\ EncodeCalled
    /\ args[1].s = TestJobId
    /\ ret[1] = <<"J", "o", "b", "Q", "u", "e", "u", "e", "R", "u", "n", "%", "2", "1", "%", "2", "1", "%", "2", "1", "%", "2", "1", "A", "B", "C">>
    /\ urlencoding_decode(ret[1]) = TestJobId

\* ---------------------------------------------------------------- C32
\* C32: get_session_lock gives every call with the same SessionKey the same
\* lock, also when the first calls for a key come together, and different
\* keys different locks; a key's lock, once registered, is never removed or
\* replaced, so the set of registered keys only grows.
C32_OneLockPerKey ==
    [][ /\ \A k \in DOMAIN session_locks :
             k \in DOMAIN session_locks' /\ session_locks'[k] = session_locks[k]
        /\ \A k1, k2 \in DOMAIN session_locks' :
             session_locks'[k1] = session_locks'[k2] => k1 = k2
        /\ \A r \in Clients :
             pc[r] = "get_lock" /\ pc'[r] # "get_lock" =>
               /\ Key(r) \in DOMAIN session_locks'
               /\ \E i \in 1..Len(lock_queue'[session_locks'[Key(r)]]) :
                    lock_queue'[session_locks'[Key(r)]][i] = r
               /\ \A l \in LockIds \ {session_locks'[Key(r)]} :
                    lock_queue'[l] = lock_queue[l]
      ]_vars

\* both sessions have their locks, and two calls of one session have come
\* to the same lock, one behind the other
C32_TwoOnOneLock ==
    /\ call[1] = "fetch" /\ call[2] = "fetch"
    /\ DOMAIN session_locks = Keys
    /\ Key(1) = Key(2)
    /\ lock_queue[session_locks[Key(1)]] = <<2, 1>>

\* ---------------------------------------------------------------- C33
\* C33: the session lock is released on every exit of get_or_create_audit
\* (success, any error, a cache hit after the lock, the call dropped at a
\* suspension point), so that, every step of the protocol returning, each
\* request waiting for the lock gets it and completes; no caller is
\* answered with OperationInProgress.
C33_LockReleased ==
    /\ [](\A r \in Callers :
            /\ pc[r] = "idle" => \A l \in LockIds : r \notin Waiting(l)
            /\ ret[r] # Err("OperationInProgress"))
    /\ \A r \in Callers :
         (pc[r] = "lock_await" /\ ~HasLock(r)) ~> (pc[r] = "idle")
    /\ \A r \in Callers :
         (pc[r] = "lock_await" /\ ~HasLock(r)) ~> (HasLock(r) \/ ret[r] = Cancelled)

\* a caller waits for the lock behind one that has dropped its call inside
\* the flow and one that holds the lock
C33_WaitsBehindTwo ==
    \E r, q, p \in Callers :
        /\ pc[r] = "lock_await" /\ ~HasLock(r)
        /\ pc[q] = "idle" /\ ret[q] = Cancelled /\ executed[q]
        /\ HasLock(p) /\ pc[p] = "in_flow"

\* ---------------------------------------------------------------- C34
\* the entries of a map whose TTL has not elapsed at time t: what a get
\* can return
Unexpired(map, t) ==
    [k \in {x \in DOMAIN map : t - map[x].cached_at < map[x].ttl} |-> map[k]]

\* C34: cleanup_expired removes exactly the entries whose TTL has elapsed
\* and leaves the others as they are; and it is not needed: what a get
\* returns is a matter of the unexpired entries alone, and these change
\* with time, insert, invalidate and clear in a way that does not depend on
\* the expired entries still in the map, and not at all with
\* cleanup_expired or with the removal that a get makes. So a sequence of
\* calls with cleanup_expired calls added or left out gives every get the
\* same result.
C34_CleanupUnobservable ==
    [][ LET before == Unexpired(entries, now)
            after == Unexpired(entries', now')
        IN  IF now' # now THEN after = Unexpired(before, now')
            ELSE IF pc[1] = "idle" /\ pc'[1] = "idle"
              THEN CASE call'[1] = "cleanup_expired" ->
                          /\ entries' = before
                          /\ after = before
                     [] call'[1] = "invalidate" ->
                          after = Removed(before, Key(1)')
                     [] call'[1] = "clear" -> after = <<>>
                     [] call'[1] = "insert_with_ttl" ->
                          \E a \in Audits, ttl \in 0..default_ttl :
                              after = Unexpired(Inserted(before, Key(1)', CachedAudit(a, ttl)), now)
            ELSE /\ after = before
                 /\ pc[1] \in {"get", "get_remove"} /\ pc'[1] = "idle" =>
                      ret'[1] = IF Key(1) \in DOMAIN before
                                  THEN Some(before[Key(1)].result) ELSE NoneVal
      ]_vars

\* cleanup_expired has removed an expired entry and left an unexpired one
C34_SweptOneOfTwo ==
    /\ call[1] = "cleanup_expired" /\ pc[1] = "idle"
    /\ seen[1].len = 2 /\ len = 1
    /\ \E k \in DOMAIN entries : Fresh(entries[k])

\* ---------------------------------------------------------------- C35
\* C35: get never removes an unexpired entry: with gets and inserts for a
\* key interleaved in any way (and neither invalidate nor clear called), a
\* key with an entry whose TTL has not elapsed still has an entry after
\* every step.
C35_UnexpiredStays ==
    [][ \A k \in DOMAIN entries :
          now' - entries[k].cached_at < entries[k].ttl => k \in DOMAIN entries'
      ]_vars

\* --- C36 -------------------------------------------------------------
\* C36: no recorded failure is lost under concurrency: once threshold
\* record_failure calls have completed within one recovery window, with no
\* record_success between them, an is_open() made afterwards (within the
\* window) returns true, whatever concurrent is_open calls did meanwhile.
C36_NoFailureLost ==
    (IsOpenReturned(2) /\ streak >= threshold /\ InWindow) => ret[2] = Bool(TRUE)

\* --- C37 -------------------------------------------------------------
\* the breaker is open: the threshold is reached and the last failure is
\* not older than the recovery time
BreakerIsOpen ==
    /\ failure_count >= threshold
    /\ last_failure # None
    /\ elapsed(last_failure) <= recovery_time

\* C37: a request that passed the breaker check and then waits for its
\* session lock while the breaker opens does not issue a create request:
\* it is never inside execute_audit_flow with the breaker open.
C37_NoCreateOnceOpen ==
    []((pc[2] = "lock_await" /\ ~HasLock(2) /\ BreakerIsOpen)
         => [](pc[2] = "in_flow" => ~BreakerIsOpen))

\* --- C38 -------------------------------------------------------------
\* the last call of slot 1 ran the protocol and failed, and the entry its
\* key had before that call is unexpired to this moment
FailedOverEntry ==
    /\ call[1] = "fetch" /\ pc[1] = "idle"
    /\ executed[1] /\ ret[1].tag = "Err"
    /\ seen[1].entry # NoEntry /\ Fresh(seen[1].entry)

\* C38: a get_or_create_audit whose protocol fails inserts or overwrites no
\* cache entry: the unexpired entry its key had before the call is still
\* there, value and expiry time unchanged, and the force_refresh=false
\* fetch that follows returns it.
C38_FailureKeepsEntry ==
    (FailedOverEntry /\ call[2] = "fetch" /\ pc[2] = "idle")
      => /\ Key(2) \in DOMAIN entries
         /\ entries[Key(2)] = seen[1].entry
         /\ ret[2] = Ok(seen[1].entry.result)

\* --- C39 -------------------------------------------------------------
\* C39: check_session_valid reports SessionExpired only for a response
\* that was redirected to an SSO or login location: a response whose final
\* URL is the requested read.html URL itself is never classified as
\* SessionExpired, whatever its job id spells.
C39_OwnUrlIsValid ==
    (call[1] = "fetch_audit_html" /\ args[1].response.sent
       /\ args[1].response.url = args[1].url)
      => ret[1] # Err("SessionExpired")

\* --- C40 -------------------------------------------------------------
\* C40: after invalidate_cache(credential) has returned, a later
\* force_refresh=false fetch for that credential returns no result of an
\* execution that started before the invalidation: client 2, which calls
\* after the invalidation, gets a result only from an execution of its own.
C40_NoStaleRepopulation ==
    (call[2] = "fetch" /\ pc[2] = "idle" /\ ret[2].tag = "Ok") => executed[2]
====
